---- MODULE Spec2Model ----
\* Pageshelf: URL resolution (core/resolver.rs, util.rs), the cache layer
\* (provider/layers/cache.rs over provider/cache/redis.rs) and the page
\* dispatcher's fallback (frontend/routes/pages.rs).
\*
\* Text the code parses (hosts, URL paths) is a sequence of one-character
\* strings, so that splitting and suffix tests are computed as the code
\* computes them.  Option<T> is a sequence of length 0 (None) or 1 (Some).
EXTENDS Integers, Sequences, FiniteSets, TLC

VARIABLES
  cfg,      \* DefaultUrlResolver's fields (immutable after new())
  url,      \* the Url handed to resolve: [host : Option<text>, path : text]
  res,      \* the UrlResolution returned, or NoRes before resolve ran
  up,       \* the upstream page source: page location -> version and files
  cache,    \* the key-value cache (Redis): key -> stored bytes
  last,     \* what the last completed call received and returned
  forge,    \* the forge: its repositories and the head commit of each branch
  snap,     \* the scanner's snapshot: (owner, repo, branch) -> version
  scan,     \* the scan task: where it is in update and what it was answered
  procs,    \* the requests in flight: each one's position and local values
  clock     \* the scan task's timer: the time, the interval's next deadline

rvars == <<cfg, url, res>>
cvars == <<up, cache, last>>
svars == <<forge, snap, scan>>
pvars == <<procs, clock>>
vars == <<cfg, url, res, up, cache, last, forge, snap, scan, procs, clock>>

(* ------------------------------------------------------------------ *)
(* Bounds                                                              *)
(* ------------------------------------------------------------------ *)

\* longest URL path drawn, in segments
MaxSegs == 3
\* most labels left of a page host in the hosts drawn
MaxLabels == 4
\* highest upstream version (commit) a page reaches
MaxVersion == 2
\* the time, in half poll intervals, up to which the scan task is followed
MaxTime == 8

(* ------------------------------------------------------------------ *)
(* Text helpers (Rust str methods)                                     *)
(* ------------------------------------------------------------------ *)

None == <<>>
Some(x) == <<x>>
IsSome(o) == Len(o) = 1
Unwrap(o) == o[1]
UnwrapOr(o, d) == IF IsSome(o) THEN o[1] ELSE d

\* str::ends_with
EndsWith(s, suf) ==
  /\ Len(suf) <= Len(s)
  /\ SubSeq(s, Len(s) - Len(suf) + 1, Len(s)) = suf

\* str::strip_suffix : Option<&str>
StripSuffix(s, suf) ==
  IF EndsWith(s, suf) THEN Some(SubSeq(s, 1, Len(s) - Len(suf))) ELSE None

\* position of the first c in s, 0 when absent
IndexOf(s, c) ==
  IF \E i \in 1..Len(s) : s[i] = c
  THEN CHOOSE i \in 1..Len(s) : s[i] = c /\ \A j \in 1..(i - 1) : s[j] # c
  ELSE 0

\* position of the last c in s, 0 when absent
LastIndexOf(s, c) ==
  IF \E i \in 1..Len(s) : s[i] = c
  THEN CHOOSE i \in 1..Len(s) : s[i] = c /\ \A j \in (i + 1)..Len(s) : s[j] # c
  ELSE 0

\* str::split(c), collected
RECURSIVE Split(_, _)
Split(s, c) ==
  LET i == IndexOf(s, c) IN
  IF i = 0 THEN <<s>>
  ELSE <<SubSeq(s, 1, i - 1)>> \o Split(SubSeq(s, i + 1, Len(s)), c)

\* str::split_once(c) : Option<(&str, &str)>
SplitOnce(s, c) ==
  LET i == IndexOf(s, c) IN
  IF i = 0 THEN None
  ELSE Some(<<SubSeq(s, 1, i - 1), SubSeq(s, i + 1, Len(s))>>)

\* str::rsplitn(n, c), collected: pieces from the right, the last piece
\* yielded is everything left of the (n-1)th separator from the right
RECURSIVE RSplitN(_, _, _)
RSplitN(s, n, c) ==
  LET i == LastIndexOf(s, c) IN
  IF n <= 1 \/ i = 0 THEN <<s>>
  ELSE <<SubSeq(s, i + 1, Len(s))>> \o RSplitN(SubSeq(s, 1, i - 1), n - 1, c)

\* [&str]::join(sep)
RECURSIVE Join(_, _)
Join(parts, sep) ==
  IF Len(parts) = 0 THEN <<>>
  ELSE IF Len(parts) = 1 THEN parts[1]
  ELSE parts[1] \o sep \o Join(Tail(parts), sep)

\* Iterator::filter(|s| !s.is_empty()), collected
RECURSIVE NonEmpty(_)
NonEmpty(parts) ==
  IF Len(parts) = 0 THEN <<>>
  ELSE IF Len(parts[1]) = 0 THEN NonEmpty(Tail(parts))
  ELSE <<parts[1]>> \o NonEmpty(Tail(parts))

\* Url::path_segments of a hierarchical URL: the path after its leading '/',
\* split on '/'
PathSegments(path) == Split(Tail(path), "/")

(* ------------------------------------------------------------------ *)
(* util.rs : analyze_url                                               *)
(* ------------------------------------------------------------------ *)

\* UrlAnalysis { owner, repo, branch : Option<String>, asset : String }
Analysis(o, r, b, a) == [owner |-> o, repo |-> r, branch |-> b, asset |-> a]

\* the path-based form with the second segment split at its last ':'
AnalyzePathLastColon(path) ==
  LET segs  == NonEmpty(PathSegments(path))
      owner == IF Len(segs) >= 1 THEN Some(segs[1]) ELSE None
      i     == IF Len(segs) >= 2 THEN LastIndexOf(segs[2], ":") ELSE 0
      repo  == IF Len(segs) < 2 THEN None
               ELSE IF i > 0 THEN Some(SubSeq(segs[2], 1, i - 1)) ELSE Some(segs[2])
      branch == IF i > 0 THEN Some(SubSeq(segs[2], i + 1, Len(segs[2]))) ELSE None
      rest  == IF Len(segs) > 2 THEN Join(SubSeq(segs, 3, Len(segs)), <<"/">>)
               ELSE <<>>
  IN Some([owner |-> owner, repo |-> repo, branch |-> branch,
           asset |-> <<"/">> \o rest])

\* the path-based form: first non-empty segment is the owner, the second is
\* split once on ':' into repo and branch, the rest is the asset
AnalyzePath(path) ==
  LET segs  == NonEmpty(PathSegments(path))
      owner == IF Len(segs) >= 1 THEN Some(segs[1]) ELSE None
      so    == IF Len(segs) >= 2 THEN SplitOnce(segs[2], ":") ELSE None
      repo  == IF Len(segs) < 2 THEN None
               ELSE IF IsSome(so) THEN Some(Unwrap(so)[1]) ELSE Some(segs[2])
      branch == IF IsSome(so) THEN Some(Unwrap(so)[2]) ELSE None
      rest  == IF Len(segs) > 2 THEN Join(SubSeq(segs, 3, Len(segs)), <<"/">>)
               ELSE <<>>
  IN Some(Analysis(owner, repo, branch, <<"/">> \o rest))

\* the subdomain-based form with the fields taken from the left: owner is
\* the leftmost label
AnalyzeSubdomainLeft(host, base_host, path) ==
  LET stripped == StripSuffix(host, base_host) IN
  IF ~IsSome(stripped) THEN None
  ELSE
    LET prefix == UnwrapOr(StripSuffix(Unwrap(stripped), <<".">>), host)
        parts  == Split(prefix, ".")
        owner  == IF Len(parts) >= 1 THEN Some(parts[1]) ELSE None
        repo   == IF Len(parts) >= 2 THEN Some(parts[2]) ELSE None
        branch == IF Len(parts) >= 3
                  THEN Some(Join(SubSeq(parts, 3, Len(parts)), <<".">>))
                  ELSE None
        rest   == Join(NonEmpty(PathSegments(path)), <<"/">>)
    IN Some(Analysis(owner, repo, branch, <<"/">> \o rest))

\* the subdomain-based form with an unbounded reverse split: the third label
\* from the right is the branch and labels left of it are dropped
AnalyzeSubdomainSplitAll(host, base_host, path) ==
  LET stripped == StripSuffix(host, base_host) IN
  IF ~IsSome(stripped) THEN None
  ELSE
    LET prefix == UnwrapOr(StripSuffix(Unwrap(stripped), <<".">>), host)
        parts  == Split(prefix, ".")
        n      == Len(parts)
        owner  == IF n >= 1 THEN Some(parts[n]) ELSE None
        repo   == IF n >= 2 THEN Some(parts[n - 1]) ELSE None
        branch == IF n >= 3 THEN Some(parts[n - 2]) ELSE None
        rest   == Join(NonEmpty(PathSegments(path)), <<"/">>)
    IN Some(Analysis(owner, repo, branch, <<"/">> \o rest))

\* the subdomain-based form: the labels left of the base host, from the
\* right: owner, repo, branch (rsplitn(3, '.')); the path is the asset
AnalyzeSubdomain(host, base_host, path) ==
  LET stripped == StripSuffix(host, base_host) IN
  IF ~IsSome(stripped) THEN None
  ELSE
    LET prefix == UnwrapOr(StripSuffix(Unwrap(stripped), <<".">>), host)
        parts  == RSplitN(prefix, 3, ".")
        owner  == IF Len(parts) >= 1 THEN Some(parts[1]) ELSE None
        repo   == IF Len(parts) >= 2 THEN Some(parts[2]) ELSE None
        branch == IF Len(parts) >= 3 THEN Some(parts[3]) ELSE None
        rest   == Join(NonEmpty(PathSegments(path)), <<"/">>)
    IN Some(Analysis(owner, repo, branch, <<"/">> \o rest))

\* analyze_url(url, base): None when the URL has no host or the host is
\* unrelated to the base; the resolver's root call passes no base and gets
\* the path-based form
AnalyzeUrl(u, base) ==
  IF ~IsSome(u.host) THEN None
  ELSE LET host == Unwrap(u.host) IN
    IF ~IsSome(base) THEN AnalyzePath(u.path)
    ELSE LET base_host == Unwrap(base) IN
      IF host # base_host /\ ~EndsWith(host, <<".">> \o base_host) THEN None
      ELSE IF host # base_host THEN AnalyzeSubdomain(host, base_host, u.path)
      ELSE AnalyzePath(u.path)

(* ------------------------------------------------------------------ *)
(* core/resolver.rs : DefaultUrlResolver                               *)
(* ------------------------------------------------------------------ *)

\* is_in_url without the separating dot: url ends with url_base
IsInUrlNoDot(url_base, host) == EndsWith(host, url_base)

\* fn is_in_url(url_base, url): url ends with "." + url_base
IsInUrl(url_base, host) == EndsWith(host, <<".">> \o url_base)

\* self.page_domains.iter().count(): Option::iter yields the Vec itself, so
\* the count is 1 for Some(vec) -- also for Some(vec![]) -- and 0 for None
PageDomainsCount(c) == Len(c.page_domains)

\* is any element of the sequence equal to x
Contains(seq, x) == \E i \in 1..Len(seq) : seq[i] = x

\* is_root with the unlisted-host arm answering !external_enabled
IsRootUnlisted(c, u) ==
  \/ (PageDomainsCount(c) = 0 /\ ~c.external_enabled)
  \/ IF IsSome(u.host)
     THEN LET host == Unwrap(u.host) IN
          IF IsSome(c.page_domains)
          THEN IF IsSome(c.home_domain)
               THEN Unwrap(c.home_domain) = host
               ELSE IF Contains(Unwrap(c.page_domains), host)
                    THEN FALSE
                    ELSE ~c.external_enabled
          ELSE IF IsSome(c.home_domain)
               THEN Unwrap(c.home_domain) = host
               ELSE ~c.external_enabled
     ELSE PageDomainsCount(c) = 0

\* is_root with a listed page host counted as root
IsRootPageHost(c, u) ==
  \/ (PageDomainsCount(c) = 0 /\ ~c.external_enabled)
  \/ IF IsSome(u.host)
     THEN LET host == Unwrap(u.host) IN
          IF IsSome(c.page_domains)
          THEN \/ Contains(Unwrap(c.page_domains), host)
               \/ IF IsSome(c.home_domain)
                  THEN Unwrap(c.home_domain) = host
                  ELSE PageDomainsCount(c) = 0 /\ ~c.external_enabled
          ELSE IF IsSome(c.home_domain)
               THEN Unwrap(c.home_domain) = host
               ELSE ~c.external_enabled
     ELSE PageDomainsCount(c) = 0

\* the is_root expression of resolve
IsRoot(c, u) ==
  \/ (PageDomainsCount(c) = 0 /\ ~c.external_enabled)
  \/ IF IsSome(u.host)
     THEN LET host == Unwrap(u.host) IN
          IF IsSome(c.page_domains)
          THEN IF IsSome(c.home_domain)
               THEN Unwrap(c.home_domain) = host
               ELSE IF Contains(Unwrap(c.page_domains), host)
                    THEN FALSE
                    ELSE PageDomainsCount(c) = 0 /\ ~c.external_enabled
          ELSE IF IsSome(c.home_domain)
               THEN Unwrap(c.home_domain) = host
               ELSE ~c.external_enabled
     ELSE PageDomainsCount(c) = 0

\* UrlResolution; "Panic" stands for the thread unwinding out of resolve
PageRes(o, n, b, a) ==
  [kind |-> "Page", owner |-> o, name |-> n, branch |-> b, asset |-> a, url |-> None]
BuiltIn == [kind |-> "BuiltIn", owner |-> <<>>, name |-> <<>>, branch |-> <<>>,
            asset |-> <<>>, url |-> None]
External(u) == [kind |-> "External", owner |-> <<>>, name |-> <<>>, branch |-> <<>>,
                asset |-> <<>>, url |-> Some(u)]
Panic == [kind |-> "Panic", owner |-> <<>>, name |-> <<>>, branch |-> <<>>,
          asset |-> <<>>, url |-> None]
NoRes == [kind |-> "NoRes", owner |-> <<>>, name |-> <<>>, branch |-> <<>>,
          asset |-> <<>>, url |-> None]

\* Page(PageAssetLocation) with the defaults applied by unwrap_or
PageOf(c, a, owner) ==
  PageRes(owner, UnwrapOr(a.repo, c.default_repo),
          UnwrapOr(a.branch, c.default_branch), a.asset)

\* the `for pd in pds` loop of the non-root branch and what follows it
RECURSIVE ResolvePageDomains(_, _, _, _)
ResolvePageDomains(c, u, host, pds) ==
  IF Len(pds) = 0
  THEN IF c.external_enabled THEN External(u) ELSE BuiltIn
  ELSE LET pd == Head(pds) IN
    IF IsInUrl(pd, host)
    THEN LET an == AnalyzeUrl(u, Some(pd)) IN
         IF IsSome(an)
         THEN IF IsSome(Unwrap(an).owner)
              THEN PageOf(c, Unwrap(an), Unwrap(Unwrap(an).owner))
              ELSE IF c.external_enabled THEN External(u)
              ELSE ResolvePageDomains(c, u, host, Tail(pds))
         ELSE ResolvePageDomains(c, u, host, Tail(pds))
    ELSE ResolvePageDomains(c, u, host, Tail(pds))

\* DefaultUrlResolver::resolve
Resolve(c, u) ==
  IF IsRoot(c, u)
  THEN LET an == AnalyzeUrl(u, None) IN
       IF IsSome(an) /\ IsSome(Unwrap(an).owner)
       THEN PageOf(c, Unwrap(an), Unwrap(Unwrap(an).owner))
       ELSE BuiltIn
  ELSE IF ~IsSome(u.host) THEN Panic      \* host.unwrap() on None
  ELSE LET host == Unwrap(u.host) IN
       IF IsSome(c.page_domains)
       THEN ResolvePageDomains(c, u, host, Unwrap(c.page_domains))
       ELSE IF c.external_enabled THEN External(u) ELSE BuiltIn

(* ------------------------------------------------------------------ *)
(* Inputs of the resolver                                              *)
(* ------------------------------------------------------------------ *)

HomeDomain == <<"h", ".", "d">>       \* stands for home.domain
PagesDomain == <<"p", ".", "d">>      \* stands for pages.domain
BaseDomain == <<"d">>                 \* a page host that PagesDomain is under
OtherDomain == <<"o", ".", "d">>      \* stands for other.domain
NoDotDomain == <<"x", "p", ".", "d">> \* ends with the characters of pages.domain
Pages == <<"p", "a", "g", "e", "s">>
Main == <<"m", "a", "i", "n">>

\* the labels put left of pages.domain, leftmost first
LabelChain == <<<<"g">>, <<"f">>, <<"e">>, <<"c">>, <<"b">>, <<"a">>>>

\* the k rightmost labels of the chain, then pages.domain
SubHost(k) ==
  Join(SubSeq(LabelChain, Len(LabelChain) - k + 1, Len(LabelChain)) \o <<PagesDomain>>,
       <<".">>)

Hosts ==
  {None}
  \cup {Some(h) : h \in {HomeDomain, PagesDomain, BaseDomain, OtherDomain, NoDotDomain}}
  \cup {Some(SubHost(k)) : k \in 1..MaxLabels}

\* path segments drawn: a name, repo:branch, repo with an empty branch, a
\* branch that itself holds ':', and the empty segment of "//"
Segments ==
  { <<"a">>, <<"b", ":", "c">>, <<"b", ":">>, <<"b", ":", "c", ":", "a">>, <<>> }

SegLists == UNION {[1..n -> Segments] : n \in 0..MaxSegs}

\* a hierarchical URL's path: '/' and the segments joined by '/'
ComposePath(segs) == <<"/">> \o Join(segs, <<"/">>)

Urls == {[host |-> h, path |-> ComposePath(sl)] : h \in Hosts, sl \in SegLists}

\* DefaultUrlResolver::new
Configs ==
  [home_domain : {None, Some(HomeDomain), Some(PagesDomain)},
   page_domains : {None, Some(<<>>), Some(<<PagesDomain>>),
                   Some(<<BaseDomain, PagesDomain>>)},
   external_enabled : BOOLEAN,
   default_repo : {Pages},
   default_branch : {Pages, Main}]

InitResolve ==
  /\ cfg \in Configs
  /\ url \in Urls
  /\ res = NoRes
  /\ up = <<>> /\ cache = <<>> /\ last = <<>>
  /\ forge = <<>> /\ snap = <<>> /\ scan = <<>>
  /\ procs = <<>> /\ clock = <<>>

\* one call of resolver.resolve(url)
ResolveStep ==
  /\ res = NoRes
  /\ res' = Resolve(cfg, url)
  /\ UNCHANGED <<procs, clock, cfg, url>>
  /\ UNCHANGED cvars
  /\ UNCHANGED svars

NextResolve == ResolveStep

SpecResolve == InitResolve /\ [][NextResolve]_vars

(* ------------------------------------------------------------------ *)
(* Properties of the resolver (checked under SpecResolve)              *)
(* ------------------------------------------------------------------ *)

Resolved == res # NoRes
HasHost == IsSome(url.host)
\* the URL path has at least one non-empty segment (it names an owner)
PathNamesOwner == Len(NonEmpty(PathSegments(url.path))) >= 1
\* the host is a strict subdomain of some configured page host
UnderSomePageHost ==
  /\ IsSome(cfg.page_domains) /\ HasHost
  /\ \E i \in 1..Len(Unwrap(cfg.page_domains)) :
        EndsWith(Unwrap(url.host), <<".">> \o Unwrap(cfg.page_domains)[i])
\* the host is one of the configured page hosts
HostIsPageHost ==
  /\ IsSome(cfg.page_domains) /\ HasHost
  /\ Contains(Unwrap(cfg.page_domains), Unwrap(url.host))

\* C3: resolve returns Page, BuiltIn or External for every configuration and
\* every URL, never panics and never returns Malformed; a URL without a host
\* resolves to BuiltIn.
C3_ResolutionTotal ==
  Resolved =>
    /\ res.kind \in {"Page", "BuiltIn", "External"}
    /\ (~HasHost => res.kind = "BuiltIn")

\* C4: every Page result has a non-empty name and a non-empty branch (the
\* defaults are non-empty in every configuration drawn).
C4_DefaultsApplied ==
  (Resolved /\ res.kind = "Page") => (res.name # <<>> /\ res.branch # <<>>)

\* C8 as stated: a URL is root iff (no page hosts and external disabled), or
\* host = home_host, or (home_host unset, external disabled and the host is
\* not listed under the page hosts).
C8_RootAsStated ==
  (Resolved /\ HasHost) =>
    (IsRoot(cfg, url) <=>
       \/ (~IsSome(cfg.page_domains) /\ ~cfg.external_enabled)
       \/ cfg.home_domain = url.host
       \/ (~IsSome(cfg.home_domain) /\ ~cfg.external_enabled /\ ~HostIsPageHost))

\* C8 amended: a URL with a host is root iff (page_domains is None and
\* external is disabled) or the host equals home_host; a root URL resolves by
\* path analysis: Page when the path names an owner, else BuiltIn.  With
\* home_host unset, external disabled and page hosts configured no host is
\* root.
C8_RootIff ==
  (Resolved /\ HasHost) =>
    /\ IsRoot(cfg, url) <=>
         \/ (~IsSome(cfg.page_domains) /\ ~cfg.external_enabled)
         \/ cfg.home_domain = url.host
    /\ IsRoot(cfg, url) =>
         res.kind = (IF PathNamesOwner THEN "Page" ELSE "BuiltIn")
    /\ (~IsSome(cfg.home_domain) /\ ~cfg.external_enabled
          /\ IsSome(cfg.page_domains) /\ ~UnderSomePageHost)
         => res = BuiltIn

\* C8 witness: home_host unset, external disabled, page hosts configured, a
\* host that is not listed and a path that names an owner: not root, BuiltIn.
C8_Witness ==
  /\ Resolved /\ HasHost
  /\ ~IsSome(cfg.home_domain) /\ ~cfg.external_enabled
  /\ cfg.page_domains = Some(<<PagesDomain>>)
  /\ url.host = Some(OtherDomain)
  /\ PathNamesOwner
  /\ ~IsRoot(cfg, url)
  /\ res = BuiltIn

\* C9 as stated: host equal to a configured page host and path '/' resolves
\* to BuiltIn, also with external enabled.
C9_PageHostBuiltIn ==
  (Resolved /\ HostIsPageHost /\ url.path = <<"/">>) => res = BuiltIn

\* C9 amended: host equal to a configured page host (and not a strict
\* subdomain of another one) and path '/' resolves to External(url) when
\* external is enabled and the host is not home_host, and to BuiltIn
\* otherwise.
C9_PageHostRoot ==
  (Resolved /\ HostIsPageHost /\ ~UnderSomePageHost /\ url.path = <<"/">>) =>
    res = (IF cfg.external_enabled /\ cfg.home_domain # url.host
           THEN External(url) ELSE BuiltIn)

\* C9 witness: pages.domain is a page host, external enabled, home.domain is
\* home: http://pages.domain/ resolved to External.
C9_Witness ==
  /\ Resolved
  /\ cfg.page_domains = Some(<<PagesDomain>>)
  /\ cfg.home_domain = Some(HomeDomain)
  /\ cfg.external_enabled
  /\ url = [host |-> Some(PagesDomain), path |-> <<"/">>]
  /\ res = External(url)

\* owners, repos, branches and asset segments the round trip is stated for
RtOwners == Segments \ {<<>>}
RtRepos == {<<"a">>, <<"b">>}
RtBranches == {<<"a">>, <<"c">>, <<"c", ":", "a">>}
RtRests == UNION {[1..n -> Segments \ {<<>>}] : n \in 0..(MaxSegs - 2)}

\* C10: under a root host, /owner/repo:branch/asset resolves to
\* Page{owner, repo, branch, '/' + asset}; without ':branch' the branch is
\* default_branch; without the repo segment the repo is default_repo and the
\* asset '/'; a path with no non-empty segment is BuiltIn; every Page asset
\* begins with '/'.
C10_PathRoundTrip ==
  Resolved =>
    /\ res.kind = "Page" => (Len(res.asset) >= 1 /\ res.asset[1] = "/")
    /\ (HasHost /\ IsRoot(cfg, url)) =>
        /\ \A o \in RtOwners, r \in RtRepos, b \in RtBranches, rest \in RtRests :
             url.path = ComposePath(<<o, r \o <<":">> \o b>> \o rest)
               => res = PageRes(o, r, b, <<"/">> \o Join(rest, <<"/">>))
        /\ \A o \in RtOwners, r \in RtRepos, rest \in RtRests :
             url.path = ComposePath(<<o, r>> \o rest)
               => res = PageRes(o, r, cfg.default_branch,
                                <<"/">> \o Join(rest, <<"/">>))
        /\ \A o \in RtOwners :
             url.path = ComposePath(<<o>>)
               => res = PageRes(o, cfg.default_repo, cfg.default_branch, <<"/">>)
        /\ ~PathNamesOwner => res = BuiltIn

\* C10 witness: /a/b:c:a/a under the home host resolved to the page
\* (a, b, c:a) with asset /a.
C10_Witness ==
  /\ Resolved /\ HasHost /\ IsRoot(cfg, url)
  /\ url.path = ComposePath(<<(<<"a">>), <<"b", ":", "c", ":", "a">>, (<<"a">>)>>)
  /\ res = PageRes(<<"a">>, <<"b">>, <<"c", ":", "a">>, <<"/", "a">>)

(* ------------------------------------------------------------------ *)
(* Results, paths and keys of the page sources                         *)
(* ------------------------------------------------------------------ *)

\* Result<Vec<u8> | String, _>: values are strings
Ok(v) == [ok |-> TRUE, val |-> v, err |-> ""]
Err(e) == [ok |-> FALSE, val |-> "", err |-> e]

\* Result<impl Page, PageError>: a page is its location and version
NoPage == [owner |-> "", name |-> "", branch |-> "", version |-> ""]
OkP(pg) == [ok |-> TRUE, val |-> pg, err |-> ""]
ErrP(e) == [ok |-> FALSE, val |-> NoPage, err |-> e]

\* Page::location
Loc(pg) == [owner |-> pg.owner, name |-> pg.name, branch |-> pg.branch]

\* [String]::join on strings
RECURSIVE JoinStr(_, _)
JoinStr(parts, sep) ==
  IF Len(parts) = 0 THEN ""
  ELSE IF Len(parts) = 1 THEN parts[1]
  ELSE parts[1] \o sep \o JoinStr(Tail(parts), sep)

\* std::path::Path: absolute or relative, and its components as written
Path(abs, segs) == [abs |-> abs, segs |-> segs]

\* Path::join: an absolute argument replaces the path, a relative one is
\* appended
PathJoin(p, q) == IF q.abs THEN q ELSE Path(p.abs, p.segs \o q.segs)

\* Path::to_str
PathStr(p) == (IF p.abs THEN "/" ELSE "") \o JoinStr(p.segs, "/")

\* the file the upstream serves for a path: '.' components and the leading
\* '/' do not count (std::path::absolute(Path::new("/").join(path)))
RECURSIVE DropDots(_)
DropDots(segs) ==
  IF Len(segs) = 0 THEN <<>>
  ELSE IF segs[1] = "." THEN DropDots(Tail(segs))
  ELSE <<segs[1]>> \o DropDots(Tail(segs))
NormPath(p) == DropDots(p.segs)

\* a commit id
VersionStr(v) == "v" \o ToString(v)

\* the bytes of file f at version v (every commit rewrites every file)
BytesOf(f, v) == "/" \o JoinStr(f, "/") \o "@" \o VersionStr(v)

\* bytes that are not valid UTF-8
NonUtf8 == "<ff>"
IsUtf8(v) == v # NonUtf8

\* format!("page:{}:{}:{}:version", owner, name, branch)
VersionKey(pg) ==
  "page:" \o pg.owner \o ":" \o pg.name \o ":" \o pg.branch \o ":version"
\* format!("page:{}:{}:{}:*", owner, name, branch)
InvalidateKey(pg) ==
  "page:" \o pg.owner \o ":" \o pg.name \o ":" \o pg.branch \o ":*"
\* format!("page:{}:{}:{}:asset:{}", owner, name, branch, path)
AssetKey(pg, path) ==
  "page:" \o pg.owner \o ":" \o pg.name \o ":" \o pg.branch \o ":asset:"
    \o PathStr(path)
\* the keys find_by_domains reads
DomainReadOwnerKey(d) == "domain:owner:" \o d
DomainReadNameKey(d) == "domain:name:" \o d
\* the keys find_by_domains writes
DomainWriteOwnerKey(d) == "domain:" \o d \o ":owner"
DomainWriteNameKey(d) == "domain:" \o d \o ":name"

(* ------------------------------------------------------------------ *)
(* provider/cache/redis.rs : RedisCacheConnection                      *)
(* ------------------------------------------------------------------ *)

\* what fails during a call: nothing, every connect, get_asset's connect,
\* every get, every set, every delete
Faults == {"none", "connect", "connect_asset", "get", "set", "delete"}

\* get: EXISTS then GET
CacheGet(c, k, f) ==
  IF f = "get" THEN Err("OperationError")
  ELSE IF k \in DOMAIN c THEN Ok(c[k])
  ELSE Err("NotFound")

\* CacheConnection::get_string
CacheGetString(c, k, f) ==
  LET r == CacheGet(c, k, f) IN
  IF r.ok /\ ~IsUtf8(r.val) THEN Err("OperationError") ELSE r

\* set: SET key value; the cache after it
CacheSet(c, k, v, f) ==
  IF f = "set" THEN c
  ELSE [kk \in (DOMAIN c) \cup {k} |-> IF kk = k THEN v ELSE c[kk]]

\* a delete that empties the cache
CacheDeleteEverything(c, k, f) ==
  IF f = "delete" THEN c
  ELSE [kk \in {} |-> ""]

\* delete: DEL key -- Redis DEL takes key names, not patterns, so exactly the
\* key named is removed
CacheDelete(c, k, f) ==
  IF f = "delete" THEN c
  ELSE [kk \in (DOMAIN c) \ {k} |-> c[kk]]

\* what delete returns: the number DEL reports, 1 when the key named was
\* stored and 0 when not
CacheDeleted(c, k, f) ==
  IF f = "delete" THEN [ok |-> FALSE, val |-> 0, err |-> "OperationError"]
  ELSE [ok |-> TRUE, val |-> (IF k \in DOMAIN c THEN 1 ELSE 0), err |-> ""]

(* ------------------------------------------------------------------ *)
(* The wrapped upstream source                                         *)
(* ------------------------------------------------------------------ *)

\* the branches the scanner enumerates
TargetBranches == {"pages", "dev"}
\* PageSource::default_branch
DefaultBranch == "pages"

\* page_at answering NotFound for a location the snapshot does not hold
UpstreamPageAtMissNotFound(u, o, n, b) ==
  LET loc == [owner |-> o, name |-> n, branch |-> b] IN
  IF b \notin TargetBranches \/ loc \notin DOMAIN u THEN ErrP("NotFound")
  ELSE OkP([owner |-> o, name |-> n, branch |-> b,
            version |-> VersionStr(u[loc].version)])

\* ForgejoProvider::page_at
UpstreamPageAt(u, o, n, b) ==
  LET loc == [owner |-> o, name |-> n, branch |-> b] IN
  IF b \notin TargetBranches THEN ErrP("NotFound")
  ELSE IF loc \notin DOMAIN u THEN ErrP("ProviderError")
  ELSE OkP([owner |-> o, name |-> n, branch |-> b,
            version |-> VersionStr(u[loc].version)])

\* AssetSource::get_asset of an upstream page: the file at ref = branch
UpstreamGetAsset(u, pg, path) ==
  LET f == NormPath(path) IN
  IF Loc(pg) \in DOMAIN u /\ f \in u[Loc(pg)].tree
  THEN Ok(BytesOf(f, u[Loc(pg)].version))
  ELSE Err("NotFound")

\* PageSource::find_by_domains (default): the first page of pages(), in the
\* order the map yields them, whose /.domain has a line among the domains
RECURSIVE UpstreamFindByDomains(_, _, _)
UpstreamFindByDomains(u, domains, order) ==
  IF Len(order) = 0 THEN ErrP("NotFound")
  ELSE LET loc == Head(order) IN
    IF \E i \in 1..Len(domains) : domains[i] \in u[loc].domains
    THEN OkP([owner |-> loc.owner, name |-> loc.name, branch |-> loc.branch,
              version |-> VersionStr(u[loc].version)])
    ELSE UpstreamFindByDomains(u, domains, Tail(order))

(* ------------------------------------------------------------------ *)
(* provider/layers/cache.rs : CacheLayerSource and CachePage           *)
(* ------------------------------------------------------------------ *)

\* CacheLayerSource::page_at: the result and the cache it leaves
LayerPageAt(u, c, o, n, b, f) ==
  IF f = "connect" THEN [res |-> ErrP("ProviderError"), cache |-> c]
  ELSE LET pr == UpstreamPageAt(u, o, n, b) IN
    IF ~pr.ok THEN [res |-> pr, cache |-> c]
    ELSE LET pg == pr.val
             version_key == VersionKey(pg)
             got == CacheGet(c, version_key, f)
         IN
      IF got.ok
      THEN IF ~IsUtf8(got.val)
           THEN [res |-> ErrP("ProviderError"), cache |-> c]
           ELSE IF got.val # pg.version
           THEN [res |-> pr,
                 cache |-> CacheSet(CacheDelete(c, InvalidateKey(pg), f),
                                    version_key, pg.version, f)]
           ELSE [res |-> pr, cache |-> c]
      ELSE [res |-> pr, cache |-> CacheSet(c, version_key, pg.version, f)]

\* a get_asset that hands the upstream's bytes on without storing them
LayerGetAssetNoStore(u, c, pg, path, f) ==
  IF f \in {"connect", "connect_asset"}
  THEN [res |-> Err("ProviderError"), cache |-> c]
  ELSE LET key == AssetKey(pg, path)
           got == CacheGet(c, key, f)
       IN
    IF got.ok THEN [res |-> Ok(got.val), cache |-> c]
    ELSE [res |-> UpstreamGetAsset(u, pg, path), cache |-> c]

\* a get_asset that remembers a failed upstream fetch as an empty asset
LayerGetAssetCachesFailure(u, c, pg, path, f) ==
  IF f \in {"connect", "connect_asset"}
  THEN [res |-> Err("ProviderError"), cache |-> c]
  ELSE LET key == AssetKey(pg, path)
           got == CacheGet(c, key, f)
       IN
    IF got.ok THEN [res |-> Ok(got.val), cache |-> c]
    ELSE LET a == UpstreamGetAsset(u, pg, path) IN
      IF a.ok THEN [res |-> a, cache |-> CacheSet(c, key, a.val, f)]
      ELSE [res |-> a, cache |-> CacheSet(c, key, "", f)]

\* CachePage::get_asset: the result and the cache it leaves
LayerGetAsset(u, c, pg, path, f) ==
  IF f \in {"connect", "connect_asset"}
  THEN [res |-> Err("ProviderError"), cache |-> c]
  ELSE LET key == AssetKey(pg, path)
           got == CacheGet(c, key, f)
       IN
    IF got.ok THEN [res |-> Ok(got.val), cache |-> c]
    ELSE LET a == UpstreamGetAsset(u, pg, path) IN
      IF a.ok THEN [res |-> a, cache |-> CacheSet(c, key, a.val, f)]
      ELSE [res |-> a, cache |-> c]

\* CachePage::get_asset: how often it calls the upstream's get_asset
LayerGetAssetUpstreamCalls(c, pg, path, f) ==
  IF f \in {"connect", "connect_asset"} THEN 0
  ELSE IF CacheGet(c, AssetKey(pg, path), f).ok THEN 0
  ELSE 1

\* the lookup loop of find_by_domains: the first domain whose two index keys
\* are both readable and name a page page_at returns
RECURSIVE FindCached(_, _, _, _, _)
FindCached(u, c, domains, f, reads) ==
  IF Len(domains) = 0
  THEN [hit |-> FALSE, res |-> ErrP("NotFound"), cache |-> c, reads |-> reads]
  ELSE LET domain == Head(domains)
           key_o == DomainReadOwnerKey(domain)
           key_r == DomainReadNameKey(domain)
           o == CacheGetString(c, key_o, f)
           r == CacheGetString(c, key_r, f)
           pa == LayerPageAt(u, c, o.val, r.val, DefaultBranch, f)
       IN
    IF ~o.ok THEN FindCached(u, c, Tail(domains), f, reads \o <<key_o>>)
    ELSE IF ~r.ok
    THEN FindCached(u, c, Tail(domains), f, reads \o <<key_o, key_r>>)
    ELSE IF pa.res.ok
    THEN [hit |-> TRUE, res |-> pa.res, cache |-> pa.cache,
          reads |-> reads \o <<key_o, key_r>>]
    ELSE FindCached(u, pa.cache, Tail(domains), f, reads \o <<key_o, key_r>>)

\* the write loop of find_by_domains: both index keys of every domain
RECURSIVE WriteIndex(_, _, _, _)
WriteIndex(c, domains, pg, f) ==
  IF Len(domains) = 0 THEN c
  ELSE LET domain == Head(domains)
           c1 == CacheSet(c, DomainWriteOwnerKey(domain), pg.owner, f)
           c2 == CacheSet(c1, DomainWriteNameKey(domain), pg.name, f)
       IN WriteIndex(c2, Tail(domains), pg, f)

\* CacheLayerSource::find_by_domains: the result, the cache it leaves, the
\* keys it read and whether it called the upstream's find_by_domains
LayerFindByDomains(u, c, domains, order, f) ==
  IF f = "connect"
  THEN [res |-> ErrP("ProviderError"), cache |-> c, reads |-> <<>>,
        upfind |-> FALSE]
  ELSE LET look == FindCached(u, c, domains, f, <<>>) IN
    IF look.hit
    THEN [res |-> look.res, cache |-> look.cache, reads |-> look.reads,
          upfind |-> FALSE]
    ELSE LET find == UpstreamFindByDomains(u, domains, order) IN
      IF find.ok
      THEN [res |-> find,
            cache |-> WriteIndex(look.cache, domains, find.val, f),
            reads |-> look.reads, upfind |-> TRUE]
      ELSE [res |-> find, cache |-> look.cache, reads |-> look.reads,
            upfind |-> TRUE]

\* page_at followed by get_asset as one request's outcome
RequestResult(pr, ar) ==
  IF ~pr.ok THEN Err("PageError::" \o pr.err)
  ELSE IF ~ar.ok THEN Err("AssetError::" \o ar.err)
  ELSE Ok(ar.val)

\* the same request on the wrapped upstream
UpstreamRequest(u, o, n, b, path) ==
  LET pr == UpstreamPageAt(u, o, n, b) IN
  RequestResult(pr, IF pr.ok THEN UpstreamGetAsset(u, pr.val, path)
                    ELSE Err(""))

(* ------------------------------------------------------------------ *)
(* Requests through the cache layer                                    *)
(* ------------------------------------------------------------------ *)

\* the pages the scanner found: one on the default branch, one on another
\* target branch of the same repository
P1 == [owner |-> "a", name |-> "a", branch |-> "pages"]
P2 == [owner |-> "a", name |-> "a", branch |-> "dev"]
\* a repository the scanner did not find, and a branch it does not scan
Missing == [owner |-> "b", name |-> "a", branch |-> "pages"]
OffBranch == [owner |-> "a", name |-> "a", branch |-> "zz"]
RequestLocs == {P1, P2, Missing, OffBranch}

\* the upstream after the first scan; each page claims its domains in /.domain
InitUp ==
  [loc \in {P1, P2} |->
     [version |-> 1,
      tree |-> {<<"x">>},
      domains |-> IF loc = P1 THEN {"custom.example"} ELSE {"owner", "name"}]]

\* orders in which pages() can yield the scanned pages (a HashMap's keys)
Orders == {<<P1, P2>>, <<P2, P1>>}

\* asset paths requested
RequestPaths == {Path(TRUE, <<"x">>), Path(TRUE, <<"nope">>)}

\* domain lists requested
DomainLists ==
  {<<"custom.example">>, <<"owner">>, <<"name">>, <<"none.example">>}

EmptyCache == [k \in {} |-> ""]

NoCall ==
  [op |-> "none", fault |-> "none", ares |-> Ok(""), upares |-> Ok(""),
   pres |-> ErrP(""), uppres |-> ErrP(""), reads |-> <<>>, upfind |-> FALSE,
   warm |-> FALSE, stale |-> FALSE, domains |-> <<>>]

\* the domain index holds both written keys of every domain of the list
IndexWritten(c, domains) ==
  \A i \in 1..Len(domains) :
    /\ DomainWriteOwnerKey(domains[i]) \in DOMAIN c
    /\ DomainWriteNameKey(domains[i]) \in DOMAIN c

\* the cache remembers the page under a version the upstream has left
StaleIn(u, c, loc) ==
  /\ loc \in DOMAIN u
  /\ VersionKey(loc) \in DOMAIN c
  /\ c[VersionKey(loc)] # NonUtf8
  /\ c[VersionKey(loc)] # VersionStr(u[loc].version)

Init ==
  /\ cfg = <<>> /\ url = <<>> /\ res = <<>>
  /\ forge = <<>> /\ snap = <<>> /\ scan = <<>>
  /\ procs = <<>> /\ clock = <<>>
  /\ up = InitUp
  /\ cache = EmptyCache
  /\ last = NoCall

\* one request for an asset: page_at, then get_asset on the page returned
RequestAsset(f) ==
  \E loc \in RequestLocs, path \in RequestPaths :
    LET pa == LayerPageAt(up, cache, loc.owner, loc.name, loc.branch, f)
        ga == IF pa.res.ok
              THEN LayerGetAsset(up, pa.cache, pa.res.val, path, f)
              ELSE [res |-> Err(""), cache |-> pa.cache]
    IN
    /\ cache' = ga.cache
    /\ last' = [NoCall EXCEPT
                  !.op = "asset", !.fault = f,
                  !.pres = pa.res,
                  !.uppres = UpstreamPageAt(up, loc.owner, loc.name, loc.branch),
                  !.ares = RequestResult(pa.res, ga.res),
                  !.upares = UpstreamRequest(up, loc.owner, loc.name,
                                             loc.branch, path),
                  !.stale = StaleIn(up, cache, loc)]
    /\ UNCHANGED <<procs, clock, cfg, url, res, up>>
    /\ UNCHANGED svars

\* one lookup of a page by the domains of a request
FindByDomains(f) ==
  \E domains \in DomainLists, order \in Orders :
    LET fd == LayerFindByDomains(up, cache, domains, order, f) IN
    /\ cache' = fd.cache
    /\ last' = [NoCall EXCEPT
                  !.op = "find", !.fault = f,
                  !.pres = fd.res,
                  !.uppres = UpstreamFindByDomains(up, domains, order),
                  !.reads = fd.reads, !.upfind = fd.upfind,
                  !.warm = IndexWritten(cache, domains),
                  !.domains = domains]
    /\ UNCHANGED <<procs, clock, cfg, url, res, up>>
    /\ UNCHANGED svars

\* the scanner sees a new commit on a page's branch
Commit ==
  \E loc \in DOMAIN up :
    /\ up[loc].version < MaxVersion
    /\ up' = [up EXCEPT ![loc].version = @ + 1]
    /\ UNCHANGED <<procs, clock, cfg, url, res, cache, last>>
    /\ UNCHANGED svars

\* the stored version of a page is overwritten with bytes that are not UTF-8
CorruptVersion ==
  \E loc \in DOMAIN up :
    /\ VersionKey(loc) \in DOMAIN cache
    /\ cache[VersionKey(loc)] # NonUtf8
    /\ cache' = [cache EXCEPT ![VersionKey(loc)] = NonUtf8]
    /\ UNCHANGED <<procs, clock, cfg, url, res, up, last>>
    /\ UNCHANGED svars

\* sequential requests against a working cache
Next ==
  \/ RequestAsset("none")
  \/ FindByDomains("none")
  \/ Commit

Spec == Init /\ [][Next]_vars

\* sequential requests against a cache that can fail
NextFault ==
  \/ \E f \in Faults : RequestAsset(f)
  \/ \E f \in Faults : FindByDomains(f)
  \/ CorruptVersion

SpecFault == Init /\ [][NextFault]_vars

(* ------------------------------------------------------------------ *)
(* Properties of the cache layer                                       *)
(* ------------------------------------------------------------------ *)

\* the asset entries the cache holds for a page all carry the bytes of the
\* version the upstream is at
NoOldAssets(loc) ==
  \A path \in RequestPaths :
    AssetKey(loc, path) \in DOMAIN cache =>
      cache[AssetKey(loc, path)] = BytesOf(NormPath(path), up[loc].version)

\* C1: version invalidation. When the upstream version of a page changed
\* since the request that cached it, then after the next request (working
\* cache, no concurrent request) the cache holds the new version under
\* page:o:n:b:version, no asset entry cached under the old version remains,
\* and the request's get_asset returned what the upstream returns now.
C1_VersionInvalidation ==
  (last.op = "asset" /\ last.stale /\ last.pres.ok) =>
    /\ cache[VersionKey(last.pres.val)] = last.pres.val.version
    /\ NoOldAssets(Loc(last.pres.val))
    /\ last.ares = last.upares

\* no page has been committed to since the first scan
NoUpstreamMutation == \A loc \in DOMAIN up : up[loc].version = 1

\* C2: cache transparency. With no upstream mutation and a working cache,
\* page_at followed by get_asset through the layer returns what the same
\* calls return on the upstream (same bytes or same error), and
\* find_by_domains returns a page of the same owner, name and branch as the
\* upstream's find_by_domains (or the same error).
C2_CacheTransparency ==
  NoUpstreamMutation =>
    /\ last.op = "asset" => last.ares = last.upares
    /\ last.op = "find" =>
         /\ last.pres.ok = last.uppres.ok
         /\ last.pres.err = last.uppres.err
         /\ Loc(last.pres.val) = Loc(last.uppres.val)

\* the keys a find_by_domains for the list writes
RECURSIVE WrittenKeys(_)
WrittenKeys(domains) ==
  IF Len(domains) = 0 THEN {}
  ELSE {DomainWriteOwnerKey(Head(domains)), DomainWriteNameKey(Head(domains))}
         \cup WrittenKeys(Tail(domains))

\* C5: warm domain index. Once a find_by_domains(d) has written the index, a
\* later find_by_domains(d) reads the keys that were written
\* (domain:{d}:owner, domain:{d}:name), returns the same page, and does not
\* call the upstream's find_by_domains.
C5_WarmIndexHit ==
  (last.op = "find" /\ last.warm) =>
    /\ ~last.upfind
    /\ \A i \in 1..Len(last.reads) : last.reads[i] \in WrittenKeys(last.domains)
    /\ last.pres.ok
    /\ Loc(last.pres.val) = Loc(last.uppres.val)

\* C6: the cache is advisory. Whatever fails in the cache (connect, get, set,
\* delete, a stored version that is not UTF-8), a request the upstream
\* answers successfully is answered with the upstream's result.
C6_CacheAdvisory ==
  /\ (last.op = "asset" /\ last.uppres.ok) =>
       /\ last.pres.ok
       /\ last.upares.ok => last.ares = last.upares
  /\ (last.op = "find" /\ last.uppres.ok) =>
       /\ last.pres.ok
       /\ Loc(last.pres.val) = Loc(last.uppres.val)

(* ------------------------------------------------------------------ *)
(* frontend/routes/pages.rs : the dispatcher's page response           *)
(* ------------------------------------------------------------------ *)

\* an HttpResponse: status, kind of body (asset bytes, plain text, rendered
\* error template) and body
Response(status, kind, body) ==
  [status |-> status, kind |-> kind, body |-> body]

\* the element of a one-element set; binding a value through {v} evaluates
\* it once where a LET would evaluate it at every use
Only(S) == CHOOSE x \in S : TRUE

\* get_page_response_raw when the cache behaves as f says: the response, the
\* status returned beside it, the cache it leaves and the path it looked up
GetPageResponseRawOn(u, c, o, n, b, file, ok_code, f) ==
  Only({
    IF ~pa.res.ok
    THEN [resp |-> Response(404, "html", "Page not found - " \o pa.res.err),
          code |-> 404, cache |-> pa.cache, lookup |-> <<>>]
    ELSE Only({
      IF ~ga.res.ok
      THEN [resp |-> Response(404, "text",
                              "Error getting asset: " \o ga.res.err),
            code |-> 404, cache |-> ga.cache, lookup |-> <<PathStr(file)>>]
      ELSE [resp |-> Response(ok_code, "asset", ga.res.val),
            code |-> ok_code, cache |-> ga.cache, lookup |-> <<PathStr(file)>>]
      : ga \in {LayerGetAsset(u, pa.cache, pa.res.val, file, f)}})
    : pa \in {LayerPageAt(u, c, o, n, b, f)}})

\* get_page_response_raw with a working cache
GetPageResponseRaw(u, c, o, n, b, file, ok_code) ==
  GetPageResponseRawOn(u, c, o, n, b, file, ok_code, "none")

\* get_page_response answering the custom 404 page with status 200
GetPageResponseCustom200(u, c, o, n, b, file, is_dir, f) ==
  LET first == IF is_dir THEN PathJoin(file, Path(FALSE, <<"index.html">>))
               ELSE file
      p == PathJoin(file, Path(FALSE, <<".", "index.html">>))
  IN
  Only({
    IF primary.code # 404
    THEN [resp |-> primary.resp, cache |-> primary.cache,
          lookups |-> primary.lookup]
    ELSE Only({
      IF secondary.code # 404
      THEN [resp |-> secondary.resp, cache |-> secondary.cache,
            lookups |-> primary.lookup \o secondary.lookup]
      ELSE Only({
        [resp |-> custom.resp, cache |-> custom.cache,
         lookups |-> primary.lookup \o secondary.lookup \o custom.lookup]
        : custom \in {GetPageResponseRawOn(u, secondary.cache, o, n, b,
                         Path(FALSE, <<".", "404.html">>), 200, f)}})
      : secondary \in {GetPageResponseRawOn(u, primary.cache, o, n, b, p,
                                            200, f)}})
    : primary \in {GetPageResponseRawOn(u, c, o, n, b, first, 200, f)}})

\* get_page_response when the cache behaves as f says; is_dir is what
\* Path::is_dir answers for the requested path on the filesystem of the host
\* the server runs on
GetPageResponseOn(u, c, o, n, b, file, is_dir, f) ==
  LET first == IF is_dir THEN PathJoin(file, Path(FALSE, <<"index.html">>))
               ELSE file
      p == PathJoin(file, Path(FALSE, <<".", "index.html">>))
  IN
  Only({
    IF primary.code # 404
    THEN [resp |-> primary.resp, cache |-> primary.cache,
          lookups |-> primary.lookup]
    ELSE Only({
      IF secondary.code # 404
      THEN [resp |-> secondary.resp, cache |-> secondary.cache,
            lookups |-> primary.lookup \o secondary.lookup]
      ELSE Only({
        [resp |-> custom.resp, cache |-> custom.cache,
         lookups |-> primary.lookup \o secondary.lookup \o custom.lookup]
        : custom \in {GetPageResponseRawOn(u, secondary.cache, o, n, b,
                         Path(FALSE, <<".", "404.html">>), 404, f)}})
      : secondary \in {GetPageResponseRawOn(u, primary.cache, o, n, b, p,
                                            200, f)}})
    : primary \in {GetPageResponseRawOn(u, c, o, n, b, first, 200, f)}})

\* get_page_response with a working cache
GetPageResponse(u, c, o, n, b, file, is_dir) ==
  GetPageResponseOn(u, c, o, n, b, file, is_dir, "none")

\* the files a page can hold: a file and a directory cannot share a name
TreeFiles == {<<"etc">>, <<"etc", "index.html">>, <<"index.html">>, <<"404.html">>}
Trees ==
  {t \in SUBSET TreeFiles : ~(<<"etc">> \in t /\ <<"etc", "index.html">> \in t)}

\* asset paths a resolution hands to the dispatcher
DispatchFiles ==
  {Path(TRUE, <<>>), Path(TRUE, <<"etc">>), Path(TRUE, <<"404.html">>),
   Path(TRUE, <<"nope">>)}

\* what the host's filesystem can answer for a path: '/' is a directory on
\* every host, any other path may or may not be one
IsDirOutcomes(file) == IF file.segs = <<>> THEN {TRUE} ELSE BOOLEAN

NoDispatch ==
  [op |-> "none", loc |-> P1, file |-> Path(TRUE, <<>>), is_dir |-> FALSE,
   resp |-> Response(0, "", ""), lookups |-> <<>>]

InitDispatch ==
  /\ cfg = <<>> /\ url = <<>> /\ res = <<>>
  /\ forge = <<>> /\ snap = <<>> /\ scan = <<>>
  /\ procs = <<>> /\ clock = <<>>
  /\ \E t \in Trees :
       up = [loc \in {P1} |->
               [version |-> 1, tree |-> t, domains |-> {"custom.example"}]]
  /\ cache = EmptyCache
  /\ last = NoDispatch

\* one GET the resolver resolved to a page
Dispatch ==
  \E loc \in {P1, Missing, OffBranch}, file \in DispatchFiles :
    \E is_dir \in IsDirOutcomes(file) :
      \E r \in {GetPageResponse(up, cache, loc.owner, loc.name, loc.branch,
                                file, is_dir)} :
      /\ cache' = r.cache
      /\ last' = [op |-> "dispatch", loc |-> loc, file |-> file,
                  is_dir |-> is_dir, resp |-> r.resp, lookups |-> r.lookups]
      /\ UNCHANGED <<procs, clock, cfg, url, res, up>>
      /\ UNCHANGED svars

\* the requests that reach a host outside the page hosts: the path's
\* segments and the query string, if any
ExternalHosts == {"custom.example", "none.example"}
ExternalSegs == {<<>>, <<"etc">>}
ExternalQueries == {None, Some("v=2")}

\* req.uri().to_string(): the path and, after '?', the query
UriString(segs, query) ==
  "/" \o JoinStr(segs, "/")
      \o (IF IsSome(query) THEN "?" \o Unwrap(query) ELSE "")

\* Path::new(&s) of that string: '?' is an ordinary character of a path, so
\* the query stays in the last component
UriPath(segs, query) ==
  IF ~IsSome(query) THEN Path(TRUE, segs)
  ELSE IF Len(segs) = 0 THEN Path(TRUE, <<"?" \o Unwrap(query)>>)
  ELSE Path(TRUE, SubSeq(segs, 1, Len(segs) - 1)
                    \o <<segs[Len(segs)] \o "?" \o Unwrap(query)>>)

\* the error template get_index ends with
MalformedResponse == Response(404, "html", "Malformed query")

\* one GET the resolver resolved to External(url): get_index's External arm
DispatchExternal ==
  \E host \in ExternalHosts, segs \in ExternalSegs, query \in ExternalQueries :
    LET file == UriPath(segs, query) IN
    \E is_dir \in IsDirOutcomes(file) :
      \E domains \in {<<host>>} :
      \E fd \in {LayerFindByDomains(up, cache, domains, <<P1>>, "none")} :
      \E r \in {IF fd.res.ok
                 THEN GetPageResponse(up, fd.cache, fd.res.val.owner,
                                      fd.res.val.name, fd.res.val.branch,
                                      file, is_dir)
                 ELSE [resp |-> MalformedResponse, cache |-> fd.cache,
                       lookups |-> <<>>]} :
      /\ cache' = r.cache
      /\ last' = [op |-> "external", loc |-> Loc(fd.res.val), file |-> file,
                  is_dir |-> is_dir, resp |-> r.resp, lookups |-> r.lookups,
                  host |-> host, segs |-> segs, query |-> query,
                  domains |-> domains, found |-> fd.res.ok]
      /\ UNCHANGED <<procs, clock, cfg, url, res, up>>
      /\ UNCHANGED svars

\* one GET the resolver resolved to BuiltIn: the index template
DispatchBuiltIn ==
  /\ last' = [op |-> "builtin", loc |-> P1, file |-> Path(TRUE, <<>>),
              is_dir |-> FALSE, resp |-> Response(200, "html", "index"),
              lookups |-> <<>>]
  /\ UNCHANGED <<procs, clock, cfg, url, res, up, cache>>
  /\ UNCHANGED svars

\* one GET resolved to a page while the cache cannot be connected to
DispatchFault ==
  \E loc \in {P1}, file \in DispatchFiles, f \in {"connect", "connect_asset"} :
    \E is_dir \in IsDirOutcomes(file) :
      \E r \in {GetPageResponseOn(up, cache, loc.owner, loc.name, loc.branch,
                                  file, is_dir, f)} :
      /\ cache' = r.cache
      /\ last' = [op |-> "fault", loc |-> loc, file |-> file,
                  is_dir |-> is_dir, resp |-> r.resp, lookups |-> r.lookups,
                  fault |-> f]
      /\ UNCHANGED <<procs, clock, cfg, url, res, up>>
      /\ UNCHANGED svars

NextDispatch ==
  \/ Dispatch
  \/ DispatchExternal
  \/ DispatchBuiltIn
  \/ DispatchFault

SpecDispatch == InitDispatch /\ [][NextDispatch]_vars

\* the response the fallback order prescribes: the asset, else
\* <asset>/index.html, both with 200; else /404.html with 404; else 404 with
\* a plain-text reason
FallbackResponse(u, loc, file) ==
  LET tree == u[loc].tree
      asset == NormPath(file)
      index == asset \o <<"index.html">>
      v == u[loc].version
  IN
  IF asset \in tree THEN Response(200, "asset", BytesOf(asset, v))
  ELSE IF index \in tree THEN Response(200, "asset", BytesOf(index, v))
  ELSE IF <<"404.html">> \in tree
  THEN Response(404, "asset", BytesOf(<<"404.html">>, v))
  ELSE Response(404, "text", "Error getting asset: NotFound")

\* C7: fallback order. For a page that exists, get_page_response answers with
\* the requested asset (200), else <asset>/index.html (200), else /404.html
\* (404, that file's body), else 404 with a plain-text reason.
C7_FallbackOrder ==
  (last.op = "dispatch" /\ last.loc \in DOMAIN up) =>
    last.resp = FallbackResponse(up, last.loc, last.file)

(* ------------------------------------------------------------------ *)
(* Properties of the subdomain form (checked under SpecResolve)        *)
(* ------------------------------------------------------------------ *)

\* the first configured page host the URL's host is a strict subdomain of
FirstPageHost ==
  LET pds == Unwrap(cfg.page_domains)
      i == CHOOSE j \in 1..Len(pds) :
             /\ EndsWith(Unwrap(url.host), <<".">> \o pds[j])
             /\ \A k \in 1..(j - 1) : ~EndsWith(Unwrap(url.host), <<".">> \o pds[k])
  IN pds[i]

\* the labels of the host left of that page host, leftmost first
HostLabels ==
  LET host == Unwrap(url.host) IN
  Split(SubSeq(host, 1, Len(host) - Len(FirstPageHost) - 1), ".")

\* '/' followed by the URL path's non-empty segments joined by '/'
PathAsset == <<"/">> \o Join(NonEmpty(PathSegments(url.path)), <<"/">>)

\* C11: subdomain form. A host that is a strict subdomain of a configured
\* page host pd (the first such in the list) and is not the home host
\* resolves to Page with owner = the label adjacent to pd, repo = the next
\* label to the left if present else default_repo, branch = what lies left of
\* that if present else default_branch, asset = '/' + the path's non-empty
\* segments joined by '/'.
C11_SubdomainForm ==
  (Resolved /\ UnderSomePageHost /\ cfg.home_domain # url.host) =>
    LET labels == HostLabels
        n == Len(labels)
    IN res = PageRes(labels[n],
                     IF n >= 2 THEN labels[n - 1] ELSE cfg.default_repo,
                     IF n >= 3 THEN Join(SubSeq(labels, 1, n - 2), <<".">>)
                     ELSE cfg.default_branch,
                     PathAsset)

\* C11 witness: c.b.a.pages.domain/a//b:c resolved to (a, b, c) with asset
\* /a/b:c.
C11_Witness ==
  /\ Resolved
  /\ cfg.page_domains = Some(<<PagesDomain>>)
  /\ cfg.home_domain = Some(HomeDomain)
  /\ url.host = Some(SubHost(3))
  /\ url.path = ComposePath(<<(<<"a">>), <<>>, <<"b", ":", "c">>>>)
  /\ res = PageRes(<<"a">>, <<"b">>, <<"c">>, <<"/", "a", "/", "b", ":", "c">>)

\* C12: with four or more labels left of the page host exactly three fields
\* come out: owner is the rightmost label, repo the second rightmost, and
\* every remaining label is in branch, dot-joined; branch.repo.owner.pd is
\* the host again, so no label is dropped.
C12_ThreeFields ==
  (Resolved /\ UnderSomePageHost /\ cfg.home_domain # url.host
     /\ Len(HostLabels) >= 4) =>
    /\ res.kind = "Page"
    /\ res.owner = HostLabels[Len(HostLabels)]
    /\ res.name = HostLabels[Len(HostLabels) - 1]
    /\ Len(Split(res.branch, ".")) = Len(HostLabels) - 2
    /\ Join(<<res.branch, res.name, res.owner, FirstPageHost>>, <<".">>)
         = Unwrap(url.host)

\* C12 witness: e.c.b.a.pages.domain resolved to owner a, repo b, branch e.c.
C12_Witness ==
  /\ Resolved
  /\ cfg.page_domains = Some(<<PagesDomain>>)
  /\ url.host = Some(SubHost(4))
  /\ res.kind = "Page"
  /\ res.owner = <<"a">> /\ res.name = <<"b">>
  /\ res.branch = <<"e", ".", "c">>

\* C13: a URL with a host that is not root and whose host is not a strict
\* subdomain of any configured page host (ending with the characters of a
\* page host without the dot does not count) resolves to External(url) when
\* external is enabled and to BuiltIn otherwise, whatever its path.
C13_NoPageHostMatch ==
  (Resolved /\ HasHost /\ ~IsRoot(cfg, url) /\ ~UnderSomePageHost) =>
    res = (IF cfg.external_enabled THEN External(url) ELSE BuiltIn)

\* C13 witness: xpages.domain/a/b:c with page host pages.domain and external
\* enabled resolved to External.
C13_Witness ==
  /\ Resolved
  /\ cfg.page_domains = Some(<<PagesDomain>>)
  /\ cfg.external_enabled
  /\ url.host = Some(NoDotDomain)
  /\ PathNamesOwner
  /\ ~IsRoot(cfg, url)
  /\ res = External(url)

(* ------------------------------------------------------------------ *)
(* provider/forgejo/scanner.rs : ForgejoScanner                        *)
(* ------------------------------------------------------------------ *)

\* target_branches in the order update walks them
TargetBranchList == <<"pages", "dev">>

\* the repositories of the forge and the branches they can have
RepoA == [owner |-> "a", name |-> "a"]
RepoB == [owner |-> "b", name |-> "a"]
ForgeRepos == {RepoA, RepoB}
ForgeBranches == {"pages", "dev", "zz"}

\* (owner, repo, branch)
LocOf(repo, b) == [owner |-> repo.owner, name |-> repo.name, branch |-> b]

\* the empty snapshot (HashMap::new, repos.clear)
EmptySnap == [l \in {} |-> [version |-> 0]]

\* the scan task before its first cycle; pc is "idle" before any cycle
\* completed, "scanning" inside update's loop, "done" between cycles and
\* "dead" once the task panicked; search is how the last search ended
\* archived is the set of returned repositories that were archived when the
\* search answered; published is the mapping the last cycle that ran to its
\* end left behind; pc is "dropped" once the scanner was dropped
IdleScan ==
  [pc |-> "idle", search |-> "none", returned |-> <<>>, todo |-> <<>>,
   fetched |-> [l \in {} |-> 0], archived |-> {}, published |-> EmptySnap]

\* the orders in which a search can return a set of repositories
SearchLists(rs) ==
  {sq \in UNION {[1..n -> rs] : n \in {Cardinality(rs)}} :
     \A i, j \in 1..Len(sq) : i # j => sq[i] # sq[j]}

\* the (repo, branch) fetches of one cycle: for each repository returned, in
\* order, each target branch, in order
RECURSIVE FetchList(_)
FetchList(repos) ==
  IF Len(repos) = 0 THEN <<>>
  ELSE [i \in 1..Len(TargetBranchList) |-> LocOf(Head(repos), TargetBranchList[i])]
         \o FetchList(Tail(repos))

\* the forge at start: repository a/a has pages at commit 1 and a branch zz
\* outside the target branches, b/a has pages at commit 1 and is not visible
InitForge ==
  [r \in ForgeRepos |->
     [listed |-> (r = RepoA),
      archived |-> FALSE,
      head |-> [b \in ForgeBranches |->
                  IF (r = RepoA /\ b \in {"pages", "zz"})
                       \/ (r = RepoB /\ b = "pages")
                  THEN 1 ELSE 0]]]

InitScan ==
  /\ cfg = <<>> /\ url = <<>> /\ res = <<>>
  /\ up = <<>> /\ cache = <<>>
  /\ last = [op |-> "none", loc |-> LocOf(RepoA, "pages"), entry |-> None,
             outcome |-> "none", res |-> ErrP("")]
  /\ forge = InitForge
  /\ snap = EmptySnap
  /\ scan = IdleScan
  /\ procs = <<>> /\ clock = <<>>

\* the branches that get pushed to
PushLocs == {LocOf(RepoA, "dev")}

\* the forge changes: a push moves a target branch to another commit (or
\* creates the branch)
ForgePush ==
  \E r \in ForgeRepos, b \in TargetBranches, c \in 1..MaxVersion :
    /\ LocOf(r, b) \in PushLocs
    /\ forge[r].head[b] # c
    /\ forge' = [forge EXCEPT ![r].head[b] = c]
    /\ UNCHANGED <<procs, clock, cfg, url, res, up, cache, last, snap, scan>>

\* the forge changes: a branch is deleted
ForgeDeleteBranch ==
  \E r \in ForgeRepos, b \in TargetBranches :
    /\ forge[r].head[b] # 0
    /\ forge' = [forge EXCEPT ![r].head[b] = 0]
    /\ UNCHANGED <<procs, clock, cfg, url, res, up, cache, last, snap, scan>>

\* the forge changes: repository b/a appears in or disappears from the search
ForgeToggleRepo ==
  /\ forge' = [forge EXCEPT ![RepoB].listed = ~@]
  /\ UNCHANGED <<procs, clock, cfg, url, res, up, cache, last, snap, scan>>

\* the forge changes: repository a/a is archived or taken out of the archive
ForgeArchive ==
  /\ forge' = [forge EXCEPT ![RepoA].archived = ~@]
  /\ UNCHANGED <<procs, clock, cfg, url, res, up, cache, last, snap, scan>>

\* RepoSearchQuery.archived as update sets it
SearchArchived == None

\* repo_search: the visible repositories; with archived: Some(x) only those
\* whose archived flag is x, with None archived and live ones alike
RepoSearch(f, archived) ==
  {r \in ForgeRepos :
     /\ f[r].listed
     /\ IsSome(archived) => f[r].archived = Unwrap(archived)}

\* update returning on a failed search after clearing the snapshot
ScanSearchFailsClears ==
  /\ scan.pc \in {"idle", "done"}
  /\ scan.search # "failed"
  /\ scan' = [scan EXCEPT !.search = "failed"]
  /\ snap' = EmptySnap
  /\ UNCHANGED <<procs, clock, cfg, url, res, up, cache, last, forge>>

\* update, up to the loop: the search fails or carries no data and update
\* returns with the snapshot untouched
ScanSearchFails ==
  /\ scan.pc \in {"idle", "done"}
  /\ scan.search # "failed"
  /\ scan' = [scan EXCEPT !.search = "failed"]
  /\ UNCHANGED <<procs, clock, cfg, url, res, up, cache, last, forge, snap>>

\* update entering the loop without clearing the snapshot
ScanSearchNoClear ==
  /\ scan.pc \in {"idle", "done"}
  /\ \E returned \in SearchLists(RepoSearch(forge, SearchArchived)) :
       scan' = [pc |-> "scanning", search |-> "ok",
                returned |-> returned, todo |-> FetchList(returned),
                fetched |-> [l \in {} |-> 0],
                archived |-> {r \in ForgeRepos :
                                /\ \E i \in 1..Len(returned) : returned[i] = r
                                /\ forge[r].archived},
                published |-> scan.published]
  /\ UNCHANGED <<procs, clock, cfg, url, res, up, cache, last, forge, snap>>

\* update, up to the loop: the search returns the visible repositories; the
\* write lock is taken and the snapshot cleared
ScanSearch ==
  /\ scan.pc \in {"idle", "done"}
  /\ \E returned \in SearchLists(RepoSearch(forge, SearchArchived)) :
       scan' = [pc |-> "scanning", search |-> "ok",
                returned |-> returned, todo |-> FetchList(returned),
                fetched |-> [l \in {} |-> 0],
                archived |-> {r \in ForgeRepos :
                                /\ \E i \in 1..Len(returned) : returned[i] = r
                                /\ forge[r].archived},
                published |-> scan.published]
  /\ snap' = EmptySnap
  /\ UNCHANGED <<procs, clock, cfg, url, res, up, cache, last, forge>>

\* update, up to the loop: the search returns a repository without owner or
\* name first; the unwrap panics after the clear and the scan task is gone
ScanSearchPanics ==
  /\ scan.pc \in {"idle", "done"}
  /\ scan' = [IdleScan EXCEPT !.pc = "dead", !.search = "ok",
                               !.published = scan.published]
  /\ snap' = EmptySnap
  /\ UNCHANGED <<procs, clock, cfg, url, res, up, cache, last, forge>>

\* the outer loop reaches a later item of the list that came without owner,
\* login or name: the unwrap panics, the write guard is dropped while the
\* task unwinds and the snapshot stays as far as it was built
ScanRepoPanics ==
  /\ scan.pc = "scanning"
  /\ Len(scan.todo) > 0
  /\ Len(scan.todo) < Len(FetchList(scan.returned))
  /\ Head(scan.todo).branch = TargetBranchList[1]
  /\ scan' = [scan EXCEPT !.pc = "dead"]
  /\ UNCHANGED <<procs, clock, cfg, url, res, up, cache, last, forge, snap>>

\* one pass of the inner loop: repo_get_branch for the next (repo, branch);
\* the fetch can fail (also for a branch that exists), a branch that does not
\* exist fails, and a fetched branch with a commit id is inserted
ScanBranch ==
  /\ scan.pc = "scanning"
  /\ Len(scan.todo) > 0
  /\ LET l == Head(scan.todo)
         r == [owner |-> l.owner, name |-> l.name]
     IN \E answer \in {0, forge[r].head[l.branch]} :
          /\ scan' = [scan EXCEPT
                        !.todo = Tail(@),
                        !.fetched = [k \in (DOMAIN @) \cup {l} |->
                                       IF k = l THEN answer ELSE @[k]]]
          /\ snap' = IF answer = 0 THEN snap
                     ELSE [k \in (DOMAIN snap) \cup {l} |->
                             IF k = l THEN [version |-> answer] ELSE snap[k]]
  /\ UNCHANGED <<procs, clock, cfg, url, res, up, cache, last, forge>>

\* the loop is over: update returns and the write lock is released
ScanEnd ==
  /\ scan.pc = "scanning"
  /\ Len(scan.todo) = 0
  /\ scan' = [scan EXCEPT !.pc = "done", !.published = snap]
  /\ UNCHANGED <<procs, clock, cfg, url, res, up, cache, last, forge, snap>>

\* Drop for ForgejoScanner: run is cleared and the task aborted. A task
\* suspended inside update is cancelled at the await it waits on (the search
\* or a branch fetch); its future is dropped and the write guard with it, and
\* the map stays as the loop left it
DropScan ==
  /\ scan.pc \in {"idle", "done", "scanning"}
  /\ scan' = [scan EXCEPT !.pc = "dropped"]
  /\ UNCHANGED <<procs, clock, cfg, url, res, up, cache, last, forge, snap>>

\* the locations page_at is asked for
PageAtLocs ==
  {LocOf(RepoA, b) : b \in ForgeBranches} \cup {LocOf(RepoB, "pages")}

\* ForgejoProvider::page_at; it takes the read lock, so it runs between the
\* scanner's cycles
PageAt ==
  /\ scan.pc # "scanning"
  /\ \E l \in PageAtLocs :
       last' = [op |-> "page_at", loc |-> l, outcome |-> "none",
                entry |-> IF l \in DOMAIN snap THEN Some(snap[l].version) ELSE None,
                res |-> UpstreamPageAt(snap, l.owner, l.name, l.branch)]
  /\ UNCHANGED <<procs, clock, cfg, url, res, up, cache, forge, snap, scan>>

\* what repo_get_raw_file(owner, repo, path, ref = branch) can come back
\* with: the file exists on the branch head ("ok") or not ("404"), and every
\* fetch can fail on the network or with a server error
RawFileOutcomes(l, f) ==
  {"network", "500"}
    \cup (IF forge[[owner |-> l.owner, name |-> l.name]].head[l.branch] # 0
             /\ f = <<"x">>
          THEN {"ok"} ELSE {"404"})

\* ForgejoDirectReadStorage::get_asset: Ok is the file, every Err of the
\* fetch is answered with NotFound
ForgejoGetAsset(outcome, bytes) ==
  IF outcome = "ok" THEN Ok(bytes) ELSE Err("NotFound")

\* get_asset on the page the last page_at returned
GetAsset ==
  /\ last.op = "page_at" /\ last.res.ok
  /\ \E f \in {<<"x">>, <<"nope">>} :
       \E outcome \in RawFileOutcomes(last.loc, f) :
         last' = [op |-> "get_asset", loc |-> last.loc, entry |-> None,
                  outcome |-> outcome,
                  res |-> ForgejoGetAsset(outcome,
                            BytesOf(f, forge[[owner |-> last.loc.owner,
                                              name |-> last.loc.name]]
                                         .head[last.loc.branch]))]
  /\ UNCHANGED <<procs, clock, cfg, url, res, up, cache, forge, snap, scan>>

NextScan ==
  \/ ForgePush
  \/ ForgeDeleteBranch
  \/ ForgeToggleRepo
  \/ ForgeArchive
  \/ ScanSearchFails
  \/ ScanSearch
  \/ ScanSearchPanics
  \/ ScanRepoPanics
  \/ ScanBranch
  \/ ScanEnd
  \/ PageAt

SpecScan == InitScan /\ [][NextScan]_vars

\* assets fetched from the pages of the snapshot, on a forge without pushes
NextAsset ==
  \/ ForgeDeleteBranch
  \/ ScanSearch
  \/ ScanBranch
  \/ ScanEnd
  \/ PageAt
  \/ GetAsset

SpecAsset == InitScan /\ [][NextAsset]_vars

\* a scanner that is dropped at some point, on a forge that takes pushes
NextDrop ==
  \/ ForgePush
  \/ ForgeDeleteBranch
  \/ ScanSearch
  \/ ScanBranch
  \/ ScanEnd
  \/ DropScan
  \/ PageAt

SpecDrop == InitScan /\ [][NextDrop]_vars

(* ------------------------------------------------------------------ *)
(* Properties of the Forgejo provider and scanner (SpecScan)           *)
(* ------------------------------------------------------------------ *)

\* C14: page_at(owner, name, branch) returns NotFound whenever branch is not
\* a target branch; otherwise ProviderError when the snapshot has no entry
\* for the location; otherwise a page whose owner, name and branch are the
\* arguments and whose version is the snapshot entry's version at the lookup.
C14_PageAt ==
  last.op = "page_at" =>
    IF last.loc.branch \notin TargetBranches
    THEN last.res = ErrP("NotFound")
    ELSE IF ~IsSome(last.entry)
    THEN last.res = ErrP("ProviderError")
    ELSE /\ last.res.ok
         /\ Loc(last.res.val) = last.loc
         /\ last.res.val.version = VersionStr(Unwrap(last.entry))

\* C14 witness: page_at found a/a:dev at version 2 in the snapshot.
C14_Witness ==
  /\ last.op = "page_at"
  /\ last.loc = LocOf(RepoA, "dev")
  /\ last.entry = Some(2)
  /\ last.res = OkP([owner |-> "a", name |-> "a", branch |-> "dev",
                     version |-> "v2"])

\* the locations a completed cycle fetched with a commit id
Qualifying ==
  {l \in DOMAIN scan.fetched :
     /\ \E i \in 1..Len(scan.returned) :
          scan.returned[i] = [owner |-> l.owner, name |-> l.name]
     /\ l.branch \in TargetBranches
     /\ scan.fetched[l] # 0}

\* C20: after a completed scan cycle the snapshot has an entry exactly for
\* the repositories the search returned and the target branches whose fetch
\* gave a commit id, each with that commit id as version; no branch outside
\* target_branches is in it and nothing of an earlier cycle is left.
C20_SnapshotExact ==
  scan.pc = "done" =>
    /\ DOMAIN snap = Qualifying
    /\ \A l \in DOMAIN snap :
         /\ snap[l].version = scan.fetched[l]
         /\ l.branch \in TargetBranches

\* C20 witness: a/a:pages was served from the snapshot of an earlier cycle
\* and the cycle completed since holds b/a:pages but not a/a:pages.
C20_Witness ==
  /\ scan.pc = "done"
  /\ last.op = "page_at" /\ last.loc = LocOf(RepoA, "pages") /\ last.res.ok
  /\ LocOf(RepoA, "pages") \notin DOMAIN snap
  /\ LocOf(RepoB, "pages") \in DOMAIN snap

\* C15: a raw-file fetch that fails because the file is missing (404) yields
\* AssetError::NotFound; any other failure of the fetch (network error, 5xx)
\* yields AssetError::ProviderError.
C15_FetchErrors ==
  last.op = "get_asset" =>
    /\ last.outcome = "404" => last.res = Err("NotFound")
    /\ last.outcome \in {"network", "500"} => last.res = Err("ProviderError")

(* ------------------------------------------------------------------ *)
(* core/pages.rs : the default PageSource::find_by_domains             *)
(* ------------------------------------------------------------------ *)

\* char::is_whitespace for the characters drawn
IsWhitespace(c) == c \in {" ", "\t", "\r", "\n"}

\* a line as it is, untrimmed
NoTrim(line) == line

\* str::trim_start and str::trim_end
RECURSIVE TrimStart(_)
TrimStart(line) ==
  IF Len(line) > 0 /\ IsWhitespace(line[1]) THEN TrimStart(Tail(line)) ELSE line
RECURSIVE TrimEnd(_)
TrimEnd(line) ==
  IF Len(line) > 0 /\ IsWhitespace(line[Len(line)])
  THEN TrimEnd(SubSeq(line, 1, Len(line) - 1)) ELSE line

\* str::trim
Trim(line) == TrimEnd(TrimStart(line))

\* body.split('\n').map(|line| line.trim()): the trimmed lines of a body
RECURSIVE TrimAll(_)
TrimAll(lines) ==
  IF Len(lines) = 0 THEN <<>> ELSE <<Trim(Head(lines))>> \o TrimAll(Tail(lines))
TrimmedBodyLines(body) == TrimAll(Split(body, "\n"))

\* what get_asset("/.domain") of a page gives: an error (the file is missing
\* or the fetch failed), bytes that are not UTF-8, or text
DomainFile(kind, body) == [kind |-> kind, body |-> body]

\* one pass of the loop over pages(): does the page apply
Applies(file, domains) ==
  /\ file.kind = "text"
  /\ \E i \in 1..Len(TrimmedBodyLines(file.body)) :
       Contains(domains, TrimmedBodyLines(file.body)[i])

\* PageSource::find_by_domains, default implementation, over the pages in
\* the order pages() yields them
RECURSIVE FindByDomainsDefault(_, _)
FindByDomainsDefault(pages, domains) ==
  IF Len(pages) = 0 THEN ErrP("NotFound")
  ELSE IF Applies(Head(pages).file, domains)
  THEN OkP([owner |-> Head(pages).loc.owner, name |-> Head(pages).loc.name,
            branch |-> Head(pages).loc.branch, version |-> "v1"])
  ELSE FindByDomainsDefault(Tail(pages), domains)

\* the domains requested and claimed
DomA == <<"a", ".", "d">>
DomB == <<"b", ".", "d">>

\* the /.domain files drawn: missing, unreadable, not UTF-8, and texts with
\* surrounding whitespace, several lines, a trailing newline, CRLF line ends,
\* whitespace inside a line, and a longer name ending with a domain
DomainFiles ==
  {DomainFile("missing", <<>>), DomainFile("unreadable", <<>>),
   DomainFile("nonutf8", <<>>)}
  \cup {DomainFile("text", b) :
          b \in {<<>>, DomA, <<" ">> \o DomA \o <<"\t">>,
                 DomB \o <<"\r", "\n">> \o DomA \o <<"\r", "\n">>,
                 <<"\n", "\n">> \o DomB,
                 <<"a", " ", ".", "d">>, <<"x">> \o DomA,
                 DomA \o <<" ">> \o DomB}}

FindDomainLists == {<<DomA>>, <<DomB>>, <<DomB, DomA>>, <<>>}

InitFind ==
  /\ cfg = <<>> /\ url = <<>> /\ res = <<>> /\ cache = <<>>
  /\ forge = <<>> /\ snap = <<>> /\ scan = <<>>
  /\ procs = <<>> /\ clock = <<>>
  /\ \E f1 \in DomainFiles, f2 \in DomainFiles :
       up = <<[loc |-> P1, file |-> f1], [loc |-> P2, file |-> f2]>>
  /\ last = [op |-> "none", domains |-> <<>>, res |-> ErrP("")]

\* one call of find_by_domains on the source
FindDefault ==
  /\ \E domains \in FindDomainLists :
       last' = [op |-> "find", domains |-> domains,
                res |-> FindByDomainsDefault(up, domains)]
  /\ UNCHANGED <<procs, clock, cfg, url, res, up, cache, forge, snap, scan>>

NextFind == FindDefault

SpecFind == InitFind /\ [][NextFind]_vars

\* a text has a line that, surrounding whitespace aside, is the domain d: d
\* sits at body[i..j], whitespace only lies between it and the line breaks
\* (or ends of the body) on both sides
HasLine(body, d) ==
  \E i \in 1..(Len(body) + 1) :
    LET j == i + Len(d) - 1 IN
    /\ j <= Len(body)
    /\ SubSeq(body, i, j) = d
    /\ \E a \in 0..(i - 1) :
         /\ a = 0 \/ body[a] = "\n"
         /\ \A k \in (a + 1)..(i - 1) : IsWhitespace(body[k])
    /\ \E z \in (j + 1)..(Len(body) + 1) :
         /\ z = Len(body) + 1 \/ body[z] = "\n"
         /\ \A k \in (j + 1)..(z - 1) : IsWhitespace(body[k])

\* the pages whose /.domain is readable UTF-8 text with such a line for one
\* of the domains
Claiming(domains) ==
  {i \in 1..Len(up) :
     /\ up[i].file.kind = "text"
     /\ \E k \in 1..Len(domains) : HasLine(up[i].file.body, domains[k])}

\* C16: the default find_by_domains returns a page only if its /.domain is
\* readable, UTF-8 and has a line equal, after trimming, to one of the
\* domains; it returns such a page when there is one and NotFound when there
\* is none; pages with a missing, unreadable or non-UTF-8 /.domain are
\* skipped and the walk goes on.
C16_FindByDomains ==
  last.op = "find" =>
    IF Claiming(last.domains) = {}
    THEN last.res = ErrP("NotFound")
    ELSE /\ last.res.ok
         /\ \E i \in Claiming(last.domains) : Loc(last.res.val) = up[i].loc

\* C16 witness: the first page's /.domain is not UTF-8, the second holds
\* " a.d<TAB>"; find_by_domains([a.d]) skipped the first and returned the
\* second.
C16_Witness ==
  /\ last.op = "find" /\ last.domains = <<DomA>>
  /\ up[1].file.kind = "nonutf8"
  /\ up[2].file = DomainFile("text", <<" ">> \o DomA \o <<"\t">>)
  /\ last.res.ok /\ Loc(last.res.val) = P2

(* ------------------------------------------------------------------ *)
(* Properties of the dispatcher (checked under SpecDispatch)           *)
(* ------------------------------------------------------------------ *)

\* the pages that claim a host
ClaimedBy(host) == {loc \in DOMAIN up : host \in up[loc].domains}

\* C17: for an External(url) resolution find_by_domains is called with
\* exactly the URL's host; when it finds a page the response is the one a
\* Page resolution of that page gives for the request's path without the
\* query string (same index.html and 404.html fallbacks); when it finds none
\* the response is 404 with the error template.
C17_ExternalDispatch ==
  last.op = "external" =>
    /\ last.domains = <<last.host>>
    /\ IF ClaimedBy(last.host) = {}
       THEN last.resp = MalformedResponse
       ELSE \E loc \in ClaimedBy(last.host) :
              last.resp = GetPageResponse(up, cache, loc.owner, loc.name,
                                          loc.branch, Path(TRUE, last.segs),
                                          last.is_dir).resp

\* the files whose bytes answer a request for a path: the asset itself or
\* the index.html under it
Servable(loc, file) ==
  {f \in up[loc].tree :
     f \in {NormPath(file), NormPath(file) \o <<"index.html">>}}

\* C18: every response to a GET has status 200 or 404; 200 only for the
\* built-in page or for an asset found directly or through the index.html
\* fallback; every PageError and AssetError, ProviderError included, is
\* answered with 404.
C18_StatusCodes ==
  last.op # "none" =>
    /\ last.resp.status \in {200, 404}
    /\ last.resp.status = 200 =>
         \/ last.op = "builtin"
         \/ /\ last.resp.kind = "asset"
            /\ last.loc \in DOMAIN up
            /\ \E f \in Servable(last.loc, last.file) :
                 last.resp.body = BytesOf(f, up[last.loc].version)
    /\ (last.op = "dispatch" /\ last.loc \notin DOMAIN up) =>
         (last.resp.status = 404 /\ last.resp.kind = "html")
    /\ (last.op \in {"dispatch", "external"} /\ last.loc \in DOMAIN up
          /\ Servable(last.loc, last.file) = {}) => last.resp.status = 404
    /\ last.op = "fault" =>
         /\ last.resp.status = 404
         /\ last.resp.body \in {"Page not found - ProviderError",
                                "Error getting asset: ProviderError"}

\* C18 witness: the cache could be connected to for page_at but not for
\* get_asset; the existing asset /etc was answered with 404 and the
\* ProviderError text.
C18_Witness ==
  /\ last.op = "fault" /\ last.fault = "connect_asset"
  /\ last.file = Path(TRUE, <<"etc">>)
  /\ <<"etc">> \in up[P1].tree
  /\ last.resp = Response(404, "text", "Error getting asset: ProviderError")

\* C19: whether index.html is appended depends on the asset path only, never
\* on the server's filesystem: whatever is_dir answers for the requested path
\* on the host, the response is the same.
C19_NoFilesystemDependence ==
  (last.op = "dispatch" /\ last.loc \in DOMAIN up) =>
    \A is_dir \in BOOLEAN :
      last.resp = GetPageResponse(up, cache, last.loc.owner, last.loc.name,
                                  last.loc.branch, last.file, is_dir).resp

(* ------------------------------------------------------------------ *)
(* provider/forgejo/scanner.rs : ForgejoScanner::auto_scan             *)
(* ------------------------------------------------------------------ *)

\* poll_interval, in time units
PollInterval == 2

\* no cycle started yet
NoStart == 0 - 1

\* the task at spawn: interval_at(now + interval_duration, interval_duration)
\* arms the first tick one interval ahead; pc is "loop" at the head of the
\* loop, "update" inside update, "tick" inside interval.tick and "stopped"
\* once the task returned or was aborted; started is when the last update
\* began and due the interval's next deadline at that moment
SpawnedClock ==
  [pc |-> "loop", now |-> 0, deadline |-> 0 + PollInterval, run |-> TRUE,
   started |-> NoStart, due |-> 0]

InitTimer ==
  /\ cfg = <<>> /\ url = <<>> /\ res = <<>>
  /\ up = <<>> /\ cache = <<>> /\ last = <<>>
  /\ forge = <<>> /\ snap = <<>> /\ scan = <<>>
  /\ procs = <<>>
  /\ clock = SpawnedClock

\* the head of the loop with run set: update is called, which issues the
\* repository search
CycleStart ==
  /\ clock.pc = "loop" /\ clock.run
  /\ clock' = [clock EXCEPT !.pc = "update", !.started = clock.now,
                            !.due = clock.deadline]
  /\ UNCHANGED <<cfg, url, res, up, cache, last, forge, snap, scan, procs>>

\* the head of the loop with run cleared: the task returns
LoopExit ==
  /\ clock.pc = "loop" /\ ~clock.run
  /\ clock' = [clock EXCEPT !.pc = "stopped"]
  /\ UNCHANGED <<cfg, url, res, up, cache, last, forge, snap, scan, procs>>

\* update returns, however long it took, and interval.tick is awaited
CycleEnd ==
  /\ clock.pc = "update"
  /\ clock' = [clock EXCEPT !.pc = "tick"]
  /\ UNCHANGED <<cfg, url, res, up, cache, last, forge, snap, scan, procs>>

\* the deadline a tick leaves behind: the one it completed for is already
\* missed by now, so a following tick completes at once
MissedTickBurst(deadline, now) == deadline + PollInterval

\* interval.tick completes once its deadline is reached; the interval keeps
\* tokio's default MissedTickBehavior (Burst), so the next deadline is one
\* period after the deadline that just completed, however late it completed
Tick ==
  /\ clock.pc = "tick"
  /\ clock.now >= clock.deadline
  /\ clock' = [clock EXCEPT !.pc = "loop",
                 !.deadline = MissedTickBurst(clock.deadline, clock.now)]
  /\ UNCHANGED <<cfg, url, res, up, cache, last, forge, snap, scan, procs>>

\* time passes while update runs or the tick is not due yet
Pass ==
  /\ clock.now < MaxTime
  /\ \/ clock.pc = "update"
     \/ clock.pc = "tick" /\ clock.now < clock.deadline
  /\ clock' = [clock EXCEPT !.now = @ + 1]
  /\ UNCHANGED <<cfg, url, res, up, cache, last, forge, snap, scan, procs>>

\* Drop for ForgejoScanner: run is cleared and the task aborted, which ends
\* it at the await it is suspended in
DropScanner ==
  /\ clock.run
  /\ clock' = [clock EXCEPT !.run = FALSE,
                 !.pc = IF @ \in {"update", "tick"} THEN "stopped" ELSE @]
  /\ UNCHANGED <<cfg, url, res, up, cache, last, forge, snap, scan, procs>>

NextTimer ==
  \/ CycleStart
  \/ LoopExit
  \/ CycleEnd
  \/ Tick
  \/ Pass
  \/ DropScanner

SpecTimer == InitTimer /\ [][NextTimer]_vars

(* ------------------------------------------------------------------ *)
(* Properties of the scan schedule (checked under SpecTimer)           *)
(* ------------------------------------------------------------------ *)

\* C21: the first scan cycle starts one poll interval after construction: no
\* repository search is issued before the first interval has elapsed.
C21_FirstCycleAfterInterval ==
  clock.started # NoStart => clock.started >= PollInterval

\* C22: after a cycle that overran the interval the next cycle starts at
\* once and the schedule is current again: whenever a cycle starts the
\* interval's next deadline lies ahead, so that no cycle is followed by a
\* catch-up tick for a deadline missed before it began.
C22_NoCatchUpBurst ==
  clock.pc = "update" => clock.due > clock.started

(* ------------------------------------------------------------------ *)
(* Properties of the scan cycle (checked under SpecScan)               *)
(* ------------------------------------------------------------------ *)

\* the snapshot is part-built: the cycle that cleared it last has fetches of
\* its list left to do
PartBuilt == Len(scan.todo) > 0

\* a step in which page_at reads the snapshot
ReadStep == last' # last /\ last'.op = "page_at"

\* C23: every page_at or pages() read observes the complete mapping of
\* before a cycle or the complete mapping of after it, never one that a
\* cycle has cleared and only filled in part.
C23_NoPartialRead == [][ReadStep => ~PartBuilt]_vars

\* a step in which update returns on a failed or empty search
FailedSearchStep == scan.search # "failed" /\ scan'.search = "failed"

\* C28: a cycle whose repository search fails or returns no data ends
\* without modifying the snapshot, every entry and version of before the
\* cycle is still there after it, and page_at keeps answering from it.
C28_FailedSearchKeepsSnapshot ==
  [][/\ FailedSearchStep => snap' = snap /\ scan'.pc = scan.pc
     /\ (ReadStep /\ scan.search = "failed") =>
          /\ last'.res = UpstreamPageAt(snap, last'.loc.owner, last'.loc.name,
                                        last'.loc.branch)
          /\ (last'.loc \in DOMAIN snap) => last'.res.ok]_vars

\* C28 witness: the search of the cycle after a completed one failed, the
\* snapshot still holds a/a:pages and page_at answered with that page.
C28_Witness ==
  /\ scan.pc = "done" /\ scan.search = "failed"
  /\ LocOf(RepoA, "pages") \in DOMAIN snap
  /\ last.op = "page_at"
  /\ last.loc = LocOf(RepoA, "pages")
  /\ last.res.ok
  /\ last.res.val.version = VersionStr(snap[last.loc].version)

\* C29: no failure inside a cycle terminates the background task, so that
\* another cycle starts after every cycle until the scanner is dropped.
C29_TaskSurvives == scan.pc # "dead"

\* the repository of a location
RepoOf(l) == [owner |-> l.owner, name |-> l.name]

\* C30: the snapshot never contains an entry for a repository that was
\* archived on the upstream when the search of the cycle answered: the
\* search excludes archived repositories.
C30_NoArchivedEntry ==
  \A l \in DOMAIN snap : RepoOf(l) \notin scan.archived

\* a repo_get_branch of the running cycle is still to be sent or answered
FetchOutstanding == scan.pc = "scanning" /\ Len(scan.todo) > 0

\* C31: the scanner holds the write lock only to publish a built mapping and
\* never across an upstream call: while a branch fetch of the cycle is
\* outstanding, a page_at can take the read lock and answer.
C31_ReadNotBlockedByFetch == FetchOutstanding => ENABLED PageAt

(* ------------------------------------------------------------------ *)
(* Properties of a dropped scanner (checked under SpecDrop)            *)
(* ------------------------------------------------------------------ *)

\* C32: after the scanner was dropped no snapshot write happens, and a
\* reader of the snapshot sees the mapping the last completed cycle
\* produced, also when the drop came in the middle of a cycle.
C32_DropKeepsLastSnapshot ==
  /\ [](scan.pc = "dropped" => snap = scan.published)
  /\ [][scan.pc = "dropped" => snap' = snap]_vars

(* ------------------------------------------------------------------ *)
(* provider/layers/cache.rs : concurrent requests, await by await      *)
(* ------------------------------------------------------------------ *)

\* the requests in flight at once, all for /x of page a/a:pages
Requests == {"r1", "r2"}
RacePath == Path(TRUE, <<"x">>)

\* a request before it started; pc is the await the request is suspended
\* before, page what upstream.page_at returned, bytes what upstream.get_asset
\* returned, out the request's result; deleted says the request issued the
\* invalidating delete and late that it stored its asset when the cache no
\* longer held the version of its page
IdleRequest ==
  [pc |-> "idle", page |-> NoPage, bytes |-> Err(""), out |-> Err(""),
   deleted |-> FALSE, late |-> FALSE]

\* the cache after earlier requests for /nope of a/a:pages and /x of a/a:dev
WarmCache ==
  CacheSet(CacheSet(CacheSet(EmptyCache,
    VersionKey(P1), VersionStr(1), "none"),
    VersionKey(P2), VersionStr(1), "none"),
    AssetKey(P2, RacePath), BytesOf(<<"x">>, 1), "none")

NoSequel == [op |-> "none", ares |-> Ok(""), upares |-> Ok("")]

InitRace ==
  /\ cfg = <<>> /\ url = <<>> /\ res = <<>>
  /\ forge = <<>> /\ snap = <<>> /\ scan = <<>>
  /\ clock = <<>>
  /\ up = InitUp
  /\ cache = WarmCache
  /\ last = NoSequel
  /\ procs = [p \in Requests |-> IdleRequest]

\* page_at up to its first cache command: connect, then upstream.page_at
PaUpstream(p) ==
  /\ procs[p].pc = "idle"
  /\ LET pr == UpstreamPageAt(up, P1.owner, P1.name, P1.branch) IN
       procs' = [procs EXCEPT ![p].pc = "pa_get", ![p].page = pr.val]
  /\ UNCHANGED <<cfg, url, res, up, cache, last, forge, snap, scan, clock>>

\* page_at: conn.get(&version_key) and the branch taken on its answer
PaGet(p) ==
  /\ procs[p].pc = "pa_get"
  /\ LET got == CacheGet(cache, VersionKey(procs[p].page), "none") IN
       procs' =
         IF ~got.ok THEN [procs EXCEPT ![p].pc = "pa_set"]
         ELSE IF ~IsUtf8(got.val)
         THEN [procs EXCEPT ![p].pc = "done",
                            ![p].out = Err("PageError::ProviderError")]
         ELSE IF got.val # procs[p].page.version
         THEN [procs EXCEPT ![p].pc = "pa_delete"]
         ELSE [procs EXCEPT ![p].pc = "ga_get"]
  /\ UNCHANGED <<cfg, url, res, up, cache, last, forge, snap, scan, clock>>

\* page_at: conn.delete("page:o:n:b:*")
PaDelete(p) ==
  /\ procs[p].pc = "pa_delete"
  /\ cache' = CacheDelete(cache, InvalidateKey(procs[p].page), "none")
  /\ procs' = [procs EXCEPT ![p].pc = "pa_set", ![p].deleted = TRUE]
  /\ UNCHANGED <<cfg, url, res, up, last, forge, snap, scan, clock>>

\* page_at: conn.set(&version_key, page.version()); the page is returned
PaSet(p) ==
  /\ procs[p].pc = "pa_set"
  /\ cache' = CacheSet(cache, VersionKey(procs[p].page),
                       procs[p].page.version, "none")
  /\ procs' = [procs EXCEPT ![p].pc = "ga_get"]
  /\ UNCHANGED <<cfg, url, res, up, last, forge, snap, scan, clock>>

\* get_asset: connect, then conn.get(&key); a hit is the result
GaGet(p) ==
  /\ procs[p].pc = "ga_get"
  /\ LET got == CacheGet(cache, AssetKey(procs[p].page, RacePath), "none") IN
       procs' =
         IF got.ok
         THEN [procs EXCEPT ![p].pc = "done", ![p].out = Ok(got.val)]
         ELSE [procs EXCEPT ![p].pc = "ga_upstream"]
  /\ UNCHANGED <<cfg, url, res, up, cache, last, forge, snap, scan, clock>>

\* get_asset: upstream.get_asset(path) after a miss
GaUpstream(p) ==
  /\ procs[p].pc = "ga_upstream"
  /\ LET a == UpstreamGetAsset(up, procs[p].page, RacePath) IN
       procs' =
         IF a.ok THEN [procs EXCEPT ![p].pc = "ga_set", ![p].bytes = a]
         ELSE [procs EXCEPT ![p].pc = "done",
                            ![p].out = Err("AssetError::" \o a.err)]
  /\ UNCHANGED <<cfg, url, res, up, cache, last, forge, snap, scan, clock>>

\* get_asset: conn.set(&key, v.bytes()); the asset is returned
GaSet(p) ==
  /\ procs[p].pc = "ga_set"
  /\ cache' = CacheSet(cache, AssetKey(procs[p].page, RacePath),
                       procs[p].bytes.val, "none")
  /\ procs' = [procs EXCEPT
                 ![p].pc = "done", ![p].out = procs[p].bytes,
                 ![p].late = CacheGet(cache, VersionKey(procs[p].page), "none")
                               # Ok(procs[p].page.version)]
  /\ UNCHANGED <<cfg, url, res, up, last, forge, snap, scan, clock>>

\* the scanner sees a new commit on a/a:pages while requests are in flight
RaceCommit ==
  /\ last.op = "none"
  /\ up[P1].version < MaxVersion
  /\ up' = [up EXCEPT ![P1].version = @ + 1]
  /\ UNCHANGED <<cfg, url, res, cache, last, forge, snap, scan, procs, clock>>

\* the next request for the same asset, once every request in flight has
\* finished: page_at, then get_asset, nothing running beside it
Sequel ==
  /\ last.op = "none"
  /\ \A p \in Requests : procs[p].pc = "done"
  /\ \E pa \in {LayerPageAt(up, cache, P1.owner, P1.name, P1.branch, "none")} :
     \E ga \in {IF pa.res.ok
                THEN LayerGetAsset(up, pa.cache, pa.res.val, RacePath, "none")
                ELSE [res |-> Err(""), cache |-> pa.cache]} :
       /\ cache' = ga.cache
       /\ last' = [op |-> "sequel",
                   ares |-> RequestResult(pa.res, ga.res),
                   upares |-> UpstreamRequest(up, P1.owner, P1.name,
                                              P1.branch, RacePath)]
  /\ UNCHANGED <<cfg, url, res, up, forge, snap, scan, procs, clock>>

NextRace ==
  \/ \E p \in Requests : PaUpstream(p)
  \/ \E p \in Requests : PaGet(p)
  \/ \E p \in Requests : PaDelete(p)
  \/ \E p \in Requests : PaSet(p)
  \/ \E p \in Requests : GaGet(p)
  \/ \E p \in Requests : GaUpstream(p)
  \/ \E p \in Requests : GaSet(p)
  \/ RaceCommit
  \/ Sequel

SpecRace == InitRace /\ [][NextRace]_vars

(* ------------------------------------------------------------------ *)
(* Properties of concurrent requests (checked under SpecRace)          *)
(* ------------------------------------------------------------------ *)

\* C24: when a get_asset that began before an invalidation stored its bytes
\* after the page_at that wrote the new version key, the next request for
\* the same asset (page_at, then get_asset, no further upstream change)
\* returns the current upstream bytes.
C24_StaleGoneByNextRequest ==
  (last.op = "sequel" /\ \E p \in Requests : procs[p].late) =>
    last.ares = last.upares

\* every request has returned from page_at
PastPageAt ==
  \A p \in Requests :
    procs[p].pc \in {"ga_get", "ga_upstream", "ga_set", "done"}

\* every request saw the version the upstream is at, which the cache did
\* not hold when they started
SameNewVersion ==
  /\ up[P1].version # 1
  /\ \A p \in Requests : procs[p].page.version = VersionStr(up[P1].version)

\* the keys page_at works on: all but the asset key of the page requested
PageAtKeys(c) == (DOMAIN c) \ {AssetKey(P1, RacePath)}

\* C25: once concurrent page_at calls for one page that all saw the same new
\* upstream version have finished, the version key holds that version and
\* the cache is as a single page_at would have left it; no call failed on
\* its delete and the keys of the other page are all still there.
C25_ConcurrentInvalidation ==
  (PastPageAt /\ SameNewVersion) =>
    LET single == LayerPageAt(up, WarmCache, P1.owner, P1.name, P1.branch,
                              "none").cache
    IN
    /\ CacheGet(cache, VersionKey(P1), "none") = Ok(VersionStr(up[P1].version))
    /\ PageAtKeys(cache) = PageAtKeys(single)
    /\ \A k \in PageAtKeys(cache) : cache[k] = single[k]
    /\ \A p \in Requests : procs[p].out # Err("PageError::ProviderError")
    /\ \A k \in {VersionKey(P2), AssetKey(P2, RacePath)} :
         CacheGet(cache, k, "none") = Ok(WarmCache[k])

\* C25 witness: both requests saw version 2 while the cache held version 1,
\* both issued the delete, and both have returned from page_at.
C25_Witness ==
  /\ PastPageAt /\ SameNewVersion
  /\ \A p \in Requests : procs[p].deleted
  /\ CacheGet(cache, VersionKey(P1), "none") = Ok(VersionStr(2))

\* the version key of a/a:pages holds the version the snapshot is at
StoredIsCurrent ==
  CacheGet(cache, VersionKey(P1), "none") = Ok(VersionStr(up[P1].version))

\* the version key of a/a:pages holds a version the snapshot has left
StoredIsOlder ==
  \E v \in 1..(up[P1].version - 1) :
    CacheGet(cache, VersionKey(P1), "none") = Ok(VersionStr(v))

\* C37: once a completed page_at has set page:o:n:b:version to the
\* snapshot's current version, no page_at completing later sets it back to
\* an older version, whatever the interleaving of the requests with the
\* scanner's change of the version.
C37_NoVersionRollback ==
  [][(StoredIsCurrent /\ cache' # cache) => ~StoredIsOlder']_vars

(* ------------------------------------------------------------------ *)
(* core/cache.rs : CacheConnection, called directly                    *)
(* ------------------------------------------------------------------ *)

\* the keys stored, each as the prefix a pattern names and the rest
KeyParts ==
  {<<"KEY_", "1">>, <<"KEY_", "2">>,
   <<"page:a:a:pages:", "version">>, <<"page:a:a:pages:", "asset:/x">>}
ConnKeys == {kp[1] \o kp[2] : kp \in KeyParts}
\* the patterns delete is called with: "KEY_*" and "page:a:a:pages:*"
ConnPatterns == {kp[1] \o "*" : kp \in KeyParts}
ConnValues == {"a", "b"}

\* a key matches a pattern "<prefix>*" when it starts with the prefix
GlobMatch(pattern, k) ==
  \E kp \in KeyParts : pattern = kp[1] \o "*" /\ k = kp[1] \o kp[2]

\* held is the set of keys stored when the call was made
NoConnCall == [op |-> "none", key |-> "", held |-> {}, res |-> Ok("")]

InitConn ==
  /\ cfg = <<>> /\ url = <<>> /\ res = <<>>
  /\ forge = <<>> /\ snap = <<>> /\ scan = <<>>
  /\ procs = <<>> /\ clock = <<>>
  /\ up = <<>>
  /\ cache = EmptyCache
  /\ last = NoConnCall

\* conn.set(key, value)
ConnSet ==
  \E k \in ConnKeys, v \in ConnValues :
    /\ cache' = CacheSet(cache, k, v, "none")
    /\ last' = [op |-> "set", key |-> k, held |-> DOMAIN cache,
                res |-> Ok("")]
    /\ UNCHANGED <<cfg, url, res, up, forge, snap, scan, procs, clock>>

\* conn.get(key)
ConnGet ==
  \E k \in ConnKeys :
    /\ last' = [op |-> "get", key |-> k, held |-> DOMAIN cache,
                res |-> CacheGet(cache, k, "none")]
    /\ UNCHANGED <<cfg, url, res, up, cache, forge, snap, scan, procs, clock>>

\* conn.delete(key), with a plain key or with a pattern
ConnDelete ==
  \E k \in ConnKeys \cup ConnPatterns :
    /\ cache' = CacheDelete(cache, k, "none")
    /\ last' = [op |-> "delete", key |-> k, held |-> DOMAIN cache,
                res |-> CacheDeleted(cache, k, "none")]
    /\ UNCHANGED <<cfg, url, res, up, forge, snap, scan, procs, clock>>

NextConn == ConnSet \/ ConnGet \/ ConnDelete

SpecConn == InitConn /\ [][NextConn]_vars

\* C26: delete with a pattern removes every stored key matching the pattern
\* and returns the number of keys removed; delete with a plain key removes
\* only that key, after which get of that key returns NotFound.
C26_GlobDelete ==
  last.op = "delete" =>
    IF last.key \in ConnPatterns
    THEN /\ \A k \in DOMAIN cache : ~GlobMatch(last.key, k)
         /\ DOMAIN cache = {k \in last.held : ~GlobMatch(last.key, k)}
         /\ last.res.ok
         /\ last.res.val = Cardinality({k \in last.held :
                                          GlobMatch(last.key, k)})
    ELSE /\ DOMAIN cache = last.held \ {last.key}
         /\ last.res.ok
         /\ last.res.val = Cardinality(last.held \cap {last.key})
         /\ CacheGet(cache, last.key, "none") = Err("NotFound")

(* ------------------------------------------------------------------ *)
(* core/pages.rs : PageQuery and PageSource::search_pages              *)
(* ------------------------------------------------------------------ *)

\* PageQuery; a slice of names is the set of its elements
PageQuery(owner, name, branch) ==
  [owner |-> owner, name |-> name, branch |-> branch]

\* PageQuery::anything
Anything == PageQuery(None, None, None)
\* PageQuery::with_owners
WithOwners(q, owners) == [q EXCEPT !.branch = Some(owners)]
\* PageQuery::with_names
WithNames(q, names) == [q EXCEPT !.branch = Some(names)]
\* PageQuery::with_branches
WithBranches(q, branches) == [q EXCEPT !.branch = Some(branches)]

\* the closure search_pages filters with
Matches(page, q) ==
  IF IsSome(q.owner) THEN page.owner \in Unwrap(q.owner)
  ELSE IF IsSome(q.name) THEN page.name \in Unwrap(q.name)
  ELSE IF IsSome(q.branch) THEN page.name \in Unwrap(q.branch)
  ELSE TRUE

\* PageSource::search_pages over the pages pages() yields
SearchPages(pages, q) == {page \in pages : Matches(page, q)}

\* the pages of the source and the name lists queries are built with
SearchLocs ==
  {[owner |-> "a", name |-> "pages", branch |-> "dev"],
   [owner |-> "b", name |-> "a", branch |-> "pages"],
   [owner |-> "a", name |-> "a", branch |-> "dev"]}
Criteria == {{"a"}, {"pages"}, {"a", "b"}}

\* want is what the builder calls asked for, query the PageQuery they built
NoSearch ==
  [op |-> "none", query |-> Anything, want |-> PageQuery(None, None, None),
   result |-> {}]

InitSearch ==
  /\ cfg = <<>> /\ url = <<>> /\ res = <<>>
  /\ forge = <<>> /\ snap = <<>> /\ scan = <<>>
  /\ procs = <<>> /\ clock = <<>>
  /\ cache = <<>>
  /\ up \in {[l \in ls |-> [version |-> 1]] : ls \in SUBSET SearchLocs}
  /\ last = NoSearch

BuildOwners ==
  /\ last.op # "search" /\ ~IsSome(last.want.owner)
  /\ \E owners \in Criteria :
       last' = [last EXCEPT !.op = "build",
                            !.query = WithOwners(@, owners),
                            !.want.owner = Some(owners)]
  /\ UNCHANGED <<cfg, url, res, up, cache, forge, snap, scan, procs, clock>>

BuildNames ==
  /\ last.op # "search" /\ ~IsSome(last.want.name)
  /\ \E names \in Criteria :
       last' = [last EXCEPT !.op = "build",
                            !.query = WithNames(@, names),
                            !.want.name = Some(names)]
  /\ UNCHANGED <<cfg, url, res, up, cache, forge, snap, scan, procs, clock>>

BuildBranches ==
  /\ last.op # "search" /\ ~IsSome(last.want.branch)
  /\ \E branches \in Criteria :
       last' = [last EXCEPT !.op = "build",
                            !.query = WithBranches(@, branches),
                            !.want.branch = Some(branches)]
  /\ UNCHANGED <<cfg, url, res, up, cache, forge, snap, scan, procs, clock>>

\* search_pages(&query) on the source
Search ==
  /\ last.op # "search"
  /\ last' = [last EXCEPT !.op = "search",
                          !.result = SearchPages(DOMAIN up, last.query)]
  /\ UNCHANGED <<cfg, url, res, up, cache, forge, snap, scan, procs, clock>>

NextSearch == BuildOwners \/ BuildNames \/ BuildBranches \/ Search

SpecSearch == InitSearch /\ [][NextSearch]_vars

\* a page satisfies every criterion the builder calls asked for
Wanted(page, want) ==
  /\ IsSome(want.owner) => page.owner \in Unwrap(want.owner)
  /\ IsSome(want.name) => page.name \in Unwrap(want.name)
  /\ IsSome(want.branch) => page.branch \in Unwrap(want.branch)

\* C27: search_pages returns exactly the pages whose owner is in O for
\* with_owners(O), whose name is in N for with_names(N), whose branch is in
\* B for with_branches(B), the pages satisfying all criteria of a combined
\* query, and every page of pages() for PageQuery::anything().
C27_SearchPages ==
  last.op = "search" =>
    last.result = {page \in DOMAIN up : Wanted(page, last.want)}


(* ------------------------------------------------------------------ *)
(* provider/layers/cache.rs : CachePage::get_asset, call by call       *)
(* ------------------------------------------------------------------ *)

\* the paths get_asset is called with: a file of the page with and without
\* the leading '/', and a file the page does not have
AssetPaths ==
  {Path(TRUE, <<"x">>), Path(FALSE, <<"x">>), Path(TRUE, <<"nope">>)}

\* get_asset on the CachePage of a scanned page; the call is recorded with
\* what the cache held under its key, what the upstream answers for the
\* path, and the get_asset that ran right before it
CachePageGetAsset(f) ==
  \E loc \in DOMAIN up, path \in AssetPaths :
    \E pg \in {UpstreamPageAt(up, loc.owner, loc.name, loc.branch).val} :
      \E ga \in {LayerGetAsset(up, cache, pg, path, f)} :
        /\ cache' = ga.cache
        /\ last' = [op |-> "get_asset", fault |-> f, page |-> pg,
                    path |-> path,
                    key |-> AssetKey(pg, path),
                    stored |-> CacheGet(cache, AssetKey(pg, path), "none"),
                    before |-> cache,
                    upcalls |-> LayerGetAssetUpstreamCalls(cache, pg, path, f),
                    upres |-> UpstreamGetAsset(up, pg, path),
                    res |-> ga.res,
                    prev |-> IF last.op = "get_asset"
                             THEN Some([key |-> last.key, res |-> last.res])
                             ELSE None]
        /\ UNCHANGED <<procs, clock, cfg, url, res, up>>
        /\ UNCHANGED svars

\* get_asset calls on cached pages between commits
NextCachePage ==
  \/ CachePageGetAsset("none")
  \/ Commit

SpecCachePage == Init /\ [][NextCachePage]_vars

\* C33: get_asset(path) uses the key page:{owner}:{name}:{branch}:asset:{path}.
\* When the key is present it returns the stored bytes without calling the
\* upstream; when absent it calls the upstream once and on success stores the
\* returned bytes under the key, so that the get_asset for the same path that
\* follows it directly is a hit returning identical bytes.
C33_GetAssetCaches ==
  last.op = "get_asset" =>
    /\ last.key = JoinStr(<<"page", last.page.owner, last.page.name,
                            last.page.branch, "asset", PathStr(last.path)>>,
                          ":")
    /\ last.stored.ok =>
         /\ last.res = last.stored
         /\ last.upcalls = 0
         /\ cache = last.before
    /\ ~last.stored.ok =>
         /\ last.upcalls = 1
         /\ last.res = last.upres
         /\ last.upres.ok =>
              cache = CacheSet(last.before, last.key, last.upres.val, "none")
         /\ ~last.upres.ok => cache = last.before
    /\ (/\ IsSome(last.prev)
        /\ Unwrap(last.prev).key = last.key
        /\ Unwrap(last.prev).res.ok) =>
         /\ last.stored.ok
         /\ last.upcalls = 0
         /\ last.res = Unwrap(last.prev).res

\* a miss that stored the upstream's bytes, followed directly by a hit
C33_Witness ==
  /\ last.op = "get_asset"
  /\ IsSome(last.prev)
  /\ Unwrap(last.prev).key = last.key
  /\ Unwrap(last.prev).res.ok
  /\ last.upcalls = 0
  /\ last.res = last.upres
  /\ last.path = Path(FALSE, <<"x">>)

(* ------------------------------------------------------------------ *)
(* provider/layers/cache.rs : failing upstream calls                   *)
(* ------------------------------------------------------------------ *)

\* CacheLayerSource::page_at alone, recorded with the cache it found and
\* the upstream's answer for the same location
CachePageAt(f) ==
  \E loc \in RequestLocs :
    \E pa \in {LayerPageAt(up, cache, loc.owner, loc.name, loc.branch, f)} :
      /\ cache' = pa.cache
      /\ last' = [op |-> "page_at", fault |-> f, loc |-> loc,
                  before |-> cache,
                  uppres |-> UpstreamPageAt(up, loc.owner, loc.name,
                                            loc.branch),
                  pres |-> pa.res]
      /\ UNCHANGED <<procs, clock, cfg, url, res, up>>
      /\ UNCHANGED svars

\* page_at and get_asset calls against a cache that can fail
NextUpstreamFails ==
  \/ \E f \in Faults : CachePageAt(f)
  \/ \E f \in Faults : CachePageGetAsset(f)

SpecUpstreamFails == Init /\ [][NextUpstreamFails]_vars

\* the call got its cache connection, so it went on to the upstream or to
\* the lookup
Connected ==
  /\ last.op = "page_at" => last.fault # "connect"
  /\ last.op = "get_asset" => last.fault \notin {"connect", "connect_asset"}

\* get_asset's lookup of its key did not return bytes
Missed == ~CacheGet(last.before, last.key, last.fault).ok

\* C34: when the upstream page_at fails, page_at returns the same error and
\* writes and deletes nothing in the cache; when the upstream get_asset fails
\* on a cache miss, get_asset returns that error and writes nothing. A
\* failure is never cached.
C34_FailuresNotCached ==
  /\ (last.op = "page_at" /\ Connected /\ ~last.uppres.ok) =>
       /\ last.pres = last.uppres
       /\ cache = last.before
  /\ (last.op = "get_asset" /\ Connected /\ Missed /\ ~last.upres.ok) =>
       /\ last.res = last.upres
       /\ cache = last.before

\* a failed upstream get_asset on a miss, on a cache that holds entries
C34_Witness ==
  /\ last.op = "get_asset"
  /\ Connected /\ Missed
  /\ last.upres = Err("NotFound")
  /\ last.res = Err("NotFound")
  /\ DOMAIN cache # {}

(* ------------------------------------------------------------------ *)
(* provider/memory/asset.rs : MemoryCache                              *)
(* ------------------------------------------------------------------ *)

\* a PathBuf as a HashMap key: paths are equal and hash alike when their
\* components are, and components() drops every '.' but a leading one of a
\* relative path
PathBuf(p) ==
  IF ~p.abs /\ Len(p.segs) > 0 /\ p.segs[1] = "."
  THEN Path(FALSE, <<".">> \o DropDots(Tail(p.segs)))
  ELSE Path(p.abs, DropDots(p.segs))

\* std::path::absolute(Path::new("/").join(path))
AbsoluteFromRoot(p) == Path(TRUE, NormPath(PathJoin(Path(TRUE, <<>>), p)))

\* MemoryCache::new
EmptyData == [k \in {} |-> ""]

\* MemoryCache::set_asset: insert under path.to_path_buf()
MemorySetAsset(data, p, bytes) ==
  [k \in (DOMAIN data) \cup {PathBuf(p)} |->
     IF k = PathBuf(p) THEN bytes ELSE data[k]]

\* MemoryCache::get_asset: look up the path made absolute from '/'
MemoryGetAsset(data, p) ==
  IF PathBuf(AbsoluteFromRoot(p)) \in DOMAIN data
  THEN Ok(data[PathBuf(AbsoluteFromRoot(p))])
  ELSE Err("NotFound")

\* MemoryCache::delete_asset: remove path.to_path_buf(); the result and the
\* map it leaves
MemoryDeleteAsset(data, p) ==
  IF PathBuf(p) \in DOMAIN data
  THEN [res |-> Ok(""), data |-> [k \in (DOMAIN data) \ {PathBuf(p)} |-> data[k]]]
  ELSE [res |-> Err("NotFound"), data |-> data]

\* the paths and contents the store is called with
MemoryPaths ==
  {Path(TRUE, <<"x">>), Path(FALSE, <<"x">>), Path(TRUE, <<".", "x">>),
   Path(FALSE, <<"y">>)}
MemoryContents == {"one", "two"}

NoMemoryCall ==
  [op |-> "none", path |-> Path(TRUE, <<>>), bytes |-> "", res |-> Err("")]

\* up holds MemoryCache.data; last is the last call with the call before it
InitMemory ==
  /\ cfg = <<>> /\ url = <<>> /\ res = <<>>
  /\ forge = <<>> /\ snap = <<>> /\ scan = <<>>
  /\ procs = <<>> /\ clock = <<>>
  /\ cache = <<>>
  /\ up = EmptyData
  /\ last = [call |-> NoMemoryCall, prev |-> NoMemoryCall]

SetAsset ==
  \E p \in MemoryPaths, bytes \in MemoryContents :
    /\ up' = MemorySetAsset(up, p, bytes)
    /\ last' = [call |-> [op |-> "set_asset", path |-> p, bytes |-> bytes,
                          res |-> Ok("")],
                prev |-> last.call]
    /\ UNCHANGED <<procs, clock, cfg, url, res, cache>>
    /\ UNCHANGED svars

MemoryGet ==
  \E p \in MemoryPaths :
    /\ last' = [call |-> [op |-> "get_asset", path |-> p, bytes |-> "",
                          res |-> MemoryGetAsset(up, p)],
                prev |-> last.call]
    /\ UNCHANGED <<procs, clock, cfg, url, res, cache, up>>
    /\ UNCHANGED svars

DeleteAsset ==
  \E p \in MemoryPaths :
    /\ up' = MemoryDeleteAsset(up, p).data
    /\ last' = [call |-> [op |-> "delete_asset", path |-> p, bytes |-> "",
                          res |-> MemoryDeleteAsset(up, p).res],
                prev |-> last.call]
    /\ UNCHANGED <<procs, clock, cfg, url, res, cache>>
    /\ UNCHANGED svars

NextMemory == SetAsset \/ MemoryGet \/ DeleteAsset

SpecMemory == InitMemory /\ [][NextMemory]_vars

\* get_asset(p) was called right after a call of op on the same path
GetAfter(op) ==
  /\ last.call.op = "get_asset"
  /\ last.prev.op = op
  /\ last.prev.path = last.call.path

\* C35: in the in-memory asset store, after set_asset(p, a), get_asset(p)
\* returns a's bytes, for every path p whether or not it starts with '/',
\* and after delete_asset(p), get_asset(p) returns NotFound.
C35_MemoryRoundTrip ==
  /\ GetAfter("set_asset") => last.call.res = Ok(last.prev.bytes)
  /\ GetAfter("delete_asset") => last.call.res = Err("NotFound")

(* ------------------------------------------------------------------ *)
(* provider/cache/redis.rs : keys with a time to live                  *)
(* ------------------------------------------------------------------ *)

\* RedisCacheConnection.ttl when configured, in seconds
Ttl == 2

\* the keys a call has set: the layer calls set only for a key that is
\* absent or holds another value
KeysSet(c, c2) == {k \in DOMAIN c2 : k \notin DOMAIN c \/ c2[k] # c[k]}

\* set with a ttl: SET, then EXPIRE key ttl; the seconds every key has left
\* after a call that took the cache from c to c2
LifeAfter(life, c, c2) ==
  [k \in DOMAIN c2 |-> IF k \in KeysSet(c, c2) THEN Ttl ELSE life[k]]

\* clock holds the seconds each stored key has left
InitTtl ==
  /\ cfg = <<>> /\ url = <<>> /\ res = <<>>
  /\ forge = <<>> /\ snap = <<>> /\ scan = <<>>
  /\ procs = <<>>
  /\ up = InitUp
  /\ cache = EmptyCache
  /\ clock = [k \in {} |-> 0]
  /\ last = [op |-> "none", page_at |-> "none", get_asset |-> "none"]

\* one request: page_at, then get_asset on the page returned; fp is what
\* fails in the cache during page_at and fg during get_asset
TtlRequest(fp, fg) ==
  \E loc \in DOMAIN up, path \in RequestPaths :
    \E pa \in {LayerPageAt(up, cache, loc.owner, loc.name, loc.branch, fp)} :
      \E ga \in {IF pa.res.ok
                  THEN LayerGetAsset(up, pa.cache, pa.res.val, path, fg)
                  ELSE [res |-> Err(""), cache |-> pa.cache]} :
        /\ cache' = ga.cache
        /\ clock' = LifeAfter(LifeAfter(clock, cache, pa.cache),
                              pa.cache, ga.cache)
        /\ last' = [op |-> "request", page_at |-> fp, get_asset |-> fg]
        /\ UNCHANGED <<procs, cfg, url, res, up>>
        /\ UNCHANGED svars

\* a second passes: keys whose time is up are gone
SecondPasses ==
  /\ DOMAIN cache # {}
  /\ clock' = [k \in {kk \in DOMAIN clock : clock[kk] > 1} |-> clock[k] - 1]
  /\ cache' = [k \in {kk \in DOMAIN clock : clock[kk] > 1} |-> cache[k]]
  /\ last' = [op |-> "second", page_at |-> "none", get_asset |-> "none"]
  /\ UNCHANGED <<procs, cfg, url, res, up>>
  /\ UNCHANGED svars

\* the upstream page gets a new commit
TtlCommit ==
  \E loc \in DOMAIN up :
    /\ up[loc].version < MaxVersion
    /\ up' = [up EXCEPT ![loc].version = @ + 1]
    /\ UNCHANGED <<procs, clock, cfg, url, res, cache, last>>
    /\ UNCHANGED svars

\* requests against a cache with a ttl whose writes can fail one by one
NextTtl ==
  \/ \E fp, fg \in {"none", "set"} : TtlRequest(fp, fg)
  \/ SecondPasses
  \/ TtlCommit

SpecTtl == InitTtl /\ [][NextTtl]_vars

\* C36: in every reachable cache state, if an asset entry page:o:n:b:asset:*
\* exists for a page then the version key page:o:n:b:version exists for that
\* page, also with a ttl configured and when single cache writes fail.
C36_AssetImpliesVersion ==
  \A loc \in DOMAIN up, path \in RequestPaths :
    AssetKey(loc, path) \in DOMAIN cache => VersionKey(loc) \in DOMAIN cache

(* ------------------------------------------------------------------ *)
(* provider/layers/cache.rs : find_by_domains with several domains     *)
(* ------------------------------------------------------------------ *)

\* the domains of a request and the lists of two of them
IndexDomains == {"custom.example", "owner", "none.example"}
SeveralDomains ==
  {<<d1, d2>> : d1, d2 \in IndexDomains} \ {<<d, d>> : d \in IndexDomains}

\* one lookup of a page by a list of several domains
FindBySeveral(f) ==
  \E domains \in SeveralDomains, order \in Orders :
    \E fd \in {LayerFindByDomains(up, cache, domains, order, f)} :
      /\ cache' = fd.cache
      /\ last' = [NoCall EXCEPT
                    !.op = "find", !.fault = f,
                    !.pres = fd.res,
                    !.uppres = UpstreamFindByDomains(up, domains, order),
                    !.reads = fd.reads, !.upfind = fd.upfind,
                    !.warm = IndexWritten(cache, domains),
                    !.domains = domains]
      /\ UNCHANGED <<procs, clock, cfg, url, res, up>>
      /\ UNCHANGED svars

\* lookups by several domains between commits
NextIndex ==
  \/ FindBySeveral("none")
  \/ Commit

SpecIndex == Init /\ [][NextIndex]_vars

\* the index holds an entry for the domain
Indexed(d) ==
  /\ DomainWriteOwnerKey(d) \in DOMAIN cache
  /\ DomainWriteNameKey(d) \in DOMAIN cache

\* C38: every domain -> (owner, name) entry of the domain index refers to a
\* page whose /.domain lists that domain: after find_by_domains succeeded
\* for several domains, a requested domain the found page does not list is
\* not indexed to that page.
C38_IndexOnlyListedDomains ==
  \A d \in IndexDomains :
    Indexed(d) =>
      \E loc \in DOMAIN up :
        /\ loc.owner = cache[DomainWriteOwnerKey(d)]
        /\ loc.name = cache[DomainWriteNameKey(d)]
        /\ d \in up[loc].domains

(* ------------------------------------------------------------------ *)
(* provider/cache/redis.rs : RedisCacheConnection::get, command by     *)
(* command                                                             *)
(* ------------------------------------------------------------------ *)

\* the connections calling get, the key they read and the bytes stored
Getters == {"g1", "g2"}
GetKey == "KEY_1"
StoredValues == {"one", "two"}

\* a get before its first command; pc is "exists" before EXISTS, "get"
\* between EXISTS answering true and GET, "done" once get returned out
IdleGet == [pc |-> "exists", out |-> Err("")]

\* what conn.get::<&str, Vec<u8>> makes of the nil reply for a key that is
\* not there: the Ok arm with the empty Vec the conversion yields, or the
\* Err arm when the conversion refuses the reply
NilReply == {Ok(""), Err("OperationError")}

\* last.ever is every value that was stored under the key so far
InitGetRace ==
  /\ cfg = <<>> /\ url = <<>> /\ res = <<>>
  /\ forge = <<>> /\ snap = <<>> /\ scan = <<>>
  /\ clock = <<>> /\ up = <<>>
  /\ cache = EmptyCache
  /\ last = [ever |-> {}]
  /\ procs = [p \in Getters |-> IdleGet]

\* get: EXISTS key; NotFound is returned when the key is not there
GetExists(p) ==
  /\ procs[p].pc = "exists"
  /\ procs' = IF GetKey \in DOMAIN cache
              THEN [procs EXCEPT ![p].pc = "get"]
              ELSE [procs EXCEPT ![p].pc = "done", ![p].out = Err("NotFound")]
  /\ UNCHANGED <<cfg, url, res, up, cache, last, forge, snap, scan, clock>>

\* get: GET key, after EXISTS answered true
GetValue(p) ==
  /\ procs[p].pc = "get"
  /\ \E reply \in (IF GetKey \in DOMAIN cache THEN {Ok(cache[GetKey])}
                    ELSE NilReply) :
       procs' = [procs EXCEPT ![p].pc = "done", ![p].out = reply]
  /\ UNCHANGED <<cfg, url, res, up, cache, last, forge, snap, scan, clock>>

\* another connection sets the key
StoreValue ==
  \E v \in StoredValues :
    /\ CacheGet(cache, GetKey, "none") # Ok(v)
    /\ cache' = CacheSet(cache, GetKey, v, "none")
    /\ last' = [ever |-> last.ever \cup {v}]
    /\ UNCHANGED <<cfg, url, res, up, forge, snap, scan, procs, clock>>

\* the key is deleted by another connection, or its ttl runs out
KeyGoes ==
  /\ GetKey \in DOMAIN cache
  /\ cache' = CacheDelete(cache, GetKey, "none")
  /\ UNCHANGED <<cfg, url, res, up, last, forge, snap, scan, procs, clock>>

NextGetRace ==
  \/ \E p \in Getters : GetExists(p)
  \/ \E p \in Getters : GetValue(p)
  \/ StoreValue
  \/ KeyGoes

SpecGetRace == InitGetRace /\ [][NextGetRace]_vars

\* C39: get returns either bytes that were stored under the key or
\* NotFound; when the key is deleted or expires between the existence check
\* and the read, get does not return empty or never-stored bytes as a hit.
C39_GetBytesOrNotFound ==
  \A p \in Getters :
    procs[p].pc = "done" =>
      \/ procs[p].out = Err("NotFound")
      \/ procs[p].out.ok /\ procs[p].out.val \in last.ever

====
